---- MODULE Spec2Model ----
(***************************************************************************)
(* The session / state-synchronisation core of the Connections activity:   *)
(* the server's session registry and alias index (server/server.js), the   *)
(* bot's cache of active sessions with its Play-button handler (bot.js)    *)
(* and the reconciliation loop checkSessionUpdates (session-poller.js).    *)
(***************************************************************************)
EXTENDS Integers, Sequences, FiniteSets, TLC

(***************************************************************************)
(* Values and input sets                                                   *)
(***************************************************************************)

\* JavaScript's undefined used as a property name: players[undefined] reads
\* the key "undefined".
Undefined == <<"u", "n", "d", "e", "f", "i", "n", "e", "d">>

\* The ids of the chat messages the platform hands out; a message id is the
\* session id of the session posted with it.
SessionIds == {"m1", "m2"}

\* The messages the bot posts a game with.
PostedIds == {"m1"}

ChannelIds == {"c1", "c2"}

\* The channel the bot is used in.
BotChannels == {"c1"}

\* Identifiers that enter the alias key are strings, modelled as sequences of
\* characters: guild ids and user ids are snowflakes (digits) or "dm", dates
\* are YYYY-MM-DD.
GuildIds == {<<"7">>}

UserIds == {<<"1">>, <<"2">>}

Dates == {<<"0", "-", "1">>}

\* (username, avatarUrl) as sent with a join.
Profiles == {<<"ann", "a.png">>, <<"bob", "b.png">>}

\* interaction.user.username and displayAvatarURL() of a user who clicks.
ProfileOf(u) == IF u = <<"1">> THEN <<"ann", "a.png">> ELSE <<"bob", "b.png">>

\* The rules of the game: four categories to solve, four mistakes allowed.
NumCategories == 4

MaxMistakes == 4

\* A guess as the core reads it: only its correct flag matters.
Guess(b) == [correct |-> b]

\* n guesses, all correct or all incorrect.
RECURSIVE Repeat(_, _)
Repeat(b, n) == IF n = 0 THEN <<>> ELSE <<Guess(b)>> \o Repeat(b, n - 1)

\* The guess histories clients send: games in progress of up to MaxPartial
\* mistakes, a solved game, a lost game, and a game of four guesses that is
\* neither.
MaxPartial == 1

Solved == Repeat(TRUE, NumCategories)

Lost == Repeat(FALSE, MaxMistakes)

Open == <<Guess(FALSE)>> \o Repeat(TRUE, NumCategories - 1)

Histories == {Repeat(FALSE, n) : n \in 1..MaxPartial} \cup {Solved, Lost, Open}

(***************************************************************************)
(* Alias keys: `${guildId}_${userId}_${date}` and its parsing              *)
(***************************************************************************)

\* server.js:303 and client main.js:72
userSessionId(g, u, d) == g \o <<"_">> \o u \o <<"_">> \o d

\* String.prototype.split("_"): the pieces between the separators.
RECURSIVE split(_)
split(str) ==
  IF \A i \in 1..Len(str) : str[i] # "_"
  THEN <<str>>
  ELSE LET i == CHOOSE k \in 1..Len(str) :
                  str[k] = "_" /\ \A j \in 1..(k - 1) : str[j] # "_"
       IN <<SubSeq(str, 1, i - 1)>> \o split(SubSeq(str, i + 1, Len(str)))

\* A parse that takes the first piece.
userIdFirstPiece(key) ==
  LET parts == split(key)
  IN IF Len(parts) >= 2 THEN parts[1] ELSE Undefined

\* server.js:347-348: parts[1] (the second piece), undefined when absent.
userIdOf(key) ==
  LET parts == split(key)
  IN IF Len(parts) >= 2 THEN parts[2] ELSE Undefined

\* The alias keys requests are made with: those of the players, and one that
\* no join ever registers.
AliasKeys == {userSessionId(g, u, d) : g \in GuildIds, u \in UserIds, d \in Dates}

UnknownKey == <<"x">>

RequestKeys == AliasKeys \cup {UnknownKey}

(***************************************************************************)
(* State                                                                   *)
(***************************************************************************)

VARIABLES
  activeSessions,        \* server: sessionId -> session, for the keys present
  sessionOrder,          \* server: the keys of activeSessions in insertion order
  userToMessageSession,  \* server: alias key -> sessionId, for the keys present
  lastResponse,          \* the last HTTP response sent, with its request
  served,                \* the number of requests the server has answered
  botSessions,           \* bot: sessionId -> the session object created for it
  botActive,             \* bot: the keys of its activeSessions Map, in insertion order
  pendingStart,          \* bot: sessions whose start notification is in flight
  click,                 \* bot: per user, the Play-button handler in progress
  tick,                  \* bot: per run of checkSessionUpdates, where it stands
  messages,              \* chat platform: message id -> what the message shows
  lastEdit,              \* chat platform: the last edit asked of it, and its outcome
  pool,                  \* server: the MySQL pool variable
  game_results,          \* database: the rows of table game_results
  gameState,             \* server: the in-memory results, guildId -> { date, players }
  twinResponse,          \* the answer of a second server, run without a database
  client,                \* client: per user, the game state of the activity
  submit,                \* handleSubmit: the board it is called on and the message it shows
  selection,             \* game-state.js: selectedWords and the last call made on it
  poster,                \* bot: pool, postedGames, the runs of checkForCompletedGames, the posts made
  updateResult           \* client: the last call of updateSession and what its caller got

serverVars == <<activeSessions, sessionOrder, userToMessageSession>>

botVars == <<botSessions, botActive, pendingStart, click, tick, messages, lastEdit>>

ledgerVars == <<pool, game_results, gameState, twinResponse>>

vars == <<activeSessions, sessionOrder, userToMessageSession, lastResponse, served,
          botSessions, botActive, pendingStart, click, tick, messages, lastEdit,
          pool, game_results, gameState, twinResponse, client, submit,
          selection, poster, updateResult>>

\* An object or Map as a function on its keys: set and delete of one key.
Put(f, k, v) == [x \in DOMAIN f \cup {k} |-> IF x = k THEN v ELSE f[x]]

Delete(f, k) == [x \in DOMAIN f \ {k} |-> f[x]]

Empty == [x \in {} |-> x]

Range(seq) == {seq[i] : i \in 1..Len(seq)}

Remove(seq, x) == SelectSeq(seq, LAMBDA y : y # x)

\* The number of requests the server answers in a run.
MaxRequests == 6

Response(op, req, status, body) ==
  [op |-> op, req |-> req, status |-> status, body |-> body]

\* Every endpoint answers one request.
Serve == served < MaxRequests /\ served' = served + 1

\* The runs of checkSessionUpdates the interval timer has started.
Ticks == {"t1"}

\* A run: where it stands, the session it is at, the sessions it has visited
\* and, while it edits, the cursors the session's players had when the run
\* reached the session.
IdleTick == [pc |-> "idle", sid |-> "none", done |-> {}, before |-> <<>>]

IdleClick == [pc |-> "idle", sid |-> "none"]

\* The client's gameState before initializeGame (game-state.js:9-16).
\* The board before any puzzle is loaded.
NoSubmit == [gameData |-> <<>>, solvedCategories |-> {}, selectedWords |-> {},
             mistakes |-> 0, isGameOver |-> FALSE, saved |-> FALSE,
             message |-> "none", called |-> <<>>, buttons |-> {}]

\* The runs of checkForCompletedGames the interval timer has started.
CompletedRuns == {"r1", "r2"}

IdleRun == [pc |-> "idle", rows |-> {}, row |-> <<>>]

\* The bot when its module is loaded: pool not assigned, postedGames empty,
\* nothing posted.
NewPoster == [pool |-> "unset", postedGames |-> {}, sent |-> Empty,
              run |-> [r \in CompletedRuns |-> IdleRun]]

\* No call of updateSession made yet.
NoUpdate == [user |-> <<>>, sent |-> <<>>, net |-> "none", status |-> 0,
             raised |-> FALSE, value |-> [isNull |-> TRUE]]

\* selectedWords of a new game state (game-state.js:9), no call made yet.
NoSelection == [selectedWords |-> <<>>, call |-> <<>>, returned |-> <<>>]

NewClient == [started |-> FALSE, hasPlayed |-> FALSE, isGameOver |-> FALSE,
              guessHistory |-> <<>>]

\* The state after the modules are loaded, with the runs of checkSessionUpdates
\* that the timer can have started.
ConstructedWith(runs) ==
  /\ activeSessions = Empty
  /\ sessionOrder = <<>>
  /\ userToMessageSession = Empty
  /\ lastResponse = Response("none", <<>>, 0, <<>>)
  /\ served = 0
  /\ botSessions = Empty
  /\ botActive = <<>>
  /\ pendingStart = {}
  /\ click = [u \in UserIds |-> IdleClick]
  /\ tick = [t \in runs |-> IdleTick]
  /\ messages = Empty
  /\ lastEdit = [by |-> "none", sid |-> "none", ok |-> TRUE]
  /\ pool = "unset"
  /\ game_results = {}
  /\ gameState = Empty
  /\ twinResponse = Response("none", <<>>, 0, <<>>)
  /\ client = [u \in UserIds |-> NewClient]
  /\ poster = NewPoster
  /\ updateResult = NoUpdate

Constructed == ConstructedWith(Ticks)

Init == Constructed /\ submit = NoSubmit /\ selection = NoSelection

(***************************************************************************)
(* The server's session endpoints                                          *)
(***************************************************************************)

\* Each endpoint is given by what it does to the registry and the alias
\* index (sessionsX) and by the response it sends (xResponse), both read off
\* the state the request finds.

\* What POST /api/sessions/start stores under sessionId.
NewSession(s, g, c) == [guildId |-> g, channelId |-> c, players |-> Empty]

\* POST /api/sessions/start
sessionsStart(s, g, c) ==
  /\ activeSessions' = Put(activeSessions, s, NewSession(s, g, c))
  /\ sessionOrder' = IF s \in Range(sessionOrder) THEN sessionOrder
                     ELSE Append(sessionOrder, s)
  /\ UNCHANGED userToMessageSession

startResponse(s, g, c) == Response("start", <<s, g, c>>, 200, <<>>)

\* A join that writes the player entry whether or not there is one.
JoinedPlayersOverwrite(players, u, prof) ==
  Put(players, u, [username |-> prof[1], avatarUrl |-> prof[2], guessHistory |-> <<>>])

\* The player map a join leaves in the session.
JoinedPlayers(players, u, prof) ==
  IF u \in DOMAIN players THEN players
  ELSE Put(players, u, [username |-> prof[1], avatarUrl |-> prof[2], guessHistory |-> <<>>])

\* A join that keeps an alias already registered for the key.
JoinedAliasKeepFirst(alias, key, s) == IF key \in DOMAIN alias THEN alias ELSE Put(alias, key, s)

\* The alias index a join leaves.
JoinedAlias(alias, key, s) == Put(alias, key, s)

\* A join that registers the alias before it looks for the session.
sessionsJoinAliasFirst(s, u, prof, g, d) ==
  /\ userToMessageSession' =
       JoinedAlias(userToMessageSession, userSessionId(g, u, d), s)
  /\ activeSessions' =
       IF s \notin DOMAIN activeSessions THEN activeSessions
       ELSE [activeSessions EXCEPT ![s].players = JoinedPlayers(@, u, prof)]
  /\ UNCHANGED sessionOrder

\* POST /api/sessions/:messageSessionId/join
sessionsJoin(s, u, prof, g, d) ==
  IF s \notin DOMAIN activeSessions
  THEN UNCHANGED serverVars
  ELSE /\ userToMessageSession' =
            JoinedAlias(userToMessageSession, userSessionId(g, u, d), s)
       /\ activeSessions' = [activeSessions EXCEPT
            ![s].players = JoinedPlayers(@, u, prof)]
       /\ UNCHANGED sessionOrder

joinResponse(s, u, prof, g, d) ==
  IF s \notin DOMAIN activeSessions
  THEN Response("join", <<s, u, prof, g, d>>, 404, "Session not found")
  ELSE Response("join", <<s, u, prof, g, d>>, 200, <<userSessionId(g, u, d), s>>)

\* An update that appends the payload to the stored history.
UpdatedHistoryAppend(old, h) == old \o h

\* The guess history an update leaves for the player.
UpdatedHistory(old, h) == h

\* POST /api/sessions/:userSessionId/update, the three not-found exits
updateError(key) ==
  IF key \notin DOMAIN userToMessageSession THEN "User session not found"
  ELSE IF userToMessageSession[key] \notin DOMAIN activeSessions
       THEN "Message session not found"
  ELSE IF userIdOf(key) \notin DOMAIN activeSessions[userToMessageSession[key]].players
       THEN "Player not in session"
  ELSE "none"

\* An update that adds the player to the aliased session when it is not in it.
sessionsUpdateUpsert(key, h) ==
  IF updateError(key) = "Player not in session"
  THEN /\ activeSessions' = [activeSessions EXCEPT
            ![userToMessageSession[key]].players =
                Put(@, userIdOf(key), [username |-> "", avatarUrl |-> "", guessHistory |-> h])]
       /\ UNCHANGED <<sessionOrder, userToMessageSession>>
  ELSE IF updateError(key) # "none"
  THEN UNCHANGED serverVars
  ELSE /\ activeSessions' = [activeSessions EXCEPT
            ![userToMessageSession[key]].players[userIdOf(key)].guessHistory = h]
       /\ UNCHANGED <<sessionOrder, userToMessageSession>>

\* An update that writes to the first session holding the player, not to
\* the aliased one.
sessionsUpdateFirst(key, h) ==
  IF updateError(key) # "none"
  THEN UNCHANGED serverVars
  ELSE LET userId == userIdOf(key)
           holding == SelectSeq(sessionOrder,
                                LAMBDA s : userId \in DOMAIN activeSessions[s].players)
       IN /\ activeSessions' = [activeSessions EXCEPT
               ![Head(holding)].players[userId].guessHistory = h]
          /\ UNCHANGED <<sessionOrder, userToMessageSession>>

\* An update that writes the history to every player of the aliased session.
sessionsUpdateAll(key, h) ==
  IF updateError(key) # "none"
  THEN UNCHANGED serverVars
  ELSE LET messageSessionId == userToMessageSession[key]
       IN /\ activeSessions' = [activeSessions EXCEPT
               ![messageSessionId].players =
                   [p \in DOMAIN @ |-> [@[p] EXCEPT !.guessHistory = h]]]
          /\ UNCHANGED <<sessionOrder, userToMessageSession>>

\* POST /api/sessions/:userSessionId/update
sessionsUpdate(key, h) ==
  IF updateError(key) # "none"
  THEN UNCHANGED serverVars
  ELSE LET messageSessionId == userToMessageSession[key]
           userId == userIdOf(key)
       IN /\ activeSessions' = [activeSessions EXCEPT
               ![messageSessionId].players[userId].guessHistory = UpdatedHistory(@, h)]
          /\ UNCHANGED <<sessionOrder, userToMessageSession>>

updateResponse(key, h) ==
  IF updateError(key) # "none"
  THEN Response("update", <<key, h>>, 404, updateError(key))
  ELSE Response("update", <<key, h>>, 200, <<userToMessageSession[key], userIdOf(key)>>)

\* A scan that does not compare the channel.
RECURSIVE lookupScanAnyChannel(_, _, _)
lookupScanAnyChannel(order, c, u) ==
  IF order = <<>> THEN [found |-> FALSE]
  ELSE LET session == activeSessions[Head(order)]
       IN IF u \in DOMAIN session.players
          THEN [found |-> TRUE, sessionId |-> Head(order),
                guessHistory |-> session.players[u].guessHistory]
          ELSE lookupScanAnyChannel(Tail(order), c, u)

\* The scan of GET /api/sessions/lookup: the first session, in the order of
\* Object.entries(activeSessions), in that channel with that player.
RECURSIVE lookupScan(_, _, _)
lookupScan(order, c, u) ==
  IF order = <<>> THEN [found |-> FALSE]
  ELSE LET session == activeSessions[Head(order)]
       IN IF session.channelId = c /\ u \in DOMAIN session.players
          THEN [found |-> TRUE, sessionId |-> Head(order),
                guessHistory |-> session.players[u].guessHistory]
          ELSE lookupScan(Tail(order), c, u)

\* GET /api/sessions/lookup/:channelId/:userId
lookupResponse(c, u) == Response("lookup", <<c, u>>, 200, lookupScan(sessionOrder, c, u))

\* GET /api/sessions/:sessionId
fetchResponse(s) ==
  IF s \notin DOMAIN activeSessions
  THEN Response("fetch", <<s>>, 404, "Session not found")
  ELSE Response("fetch", <<s>>, 200, activeSessions[s])

\* An end that also drops the aliases that resolve to the ended session.
sessionsEndPurgeAliases(s) ==
  /\ activeSessions' = Delete(activeSessions, s)
  /\ sessionOrder' = Remove(sessionOrder, s)
  /\ userToMessageSession' =
       [k \in {x \in DOMAIN userToMessageSession : userToMessageSession[x] # s}
          |-> userToMessageSession[k]]

\* DELETE /api/sessions/:sessionId
sessionsEnd(s) ==
  /\ activeSessions' = Delete(activeSessions, s)
  /\ sessionOrder' = Remove(sessionOrder, s)
  /\ UNCHANGED userToMessageSession

endResponse(s) == Response("end", <<s>>, 200, <<>>)

\* The endpoints as requests of any HTTP client, the bot not involved: the
\* request is served and its response recorded.
Start(s, g, c) ==
  /\ Serve
  /\ sessionsStart(s, g, c)
  /\ lastResponse' = startResponse(s, g, c)
  /\ UNCHANGED <<botVars, ledgerVars, client, submit, selection, poster, updateResult>>

Join(s, u, prof, g, d) ==
  /\ Serve
  /\ sessionsJoin(s, u, prof, g, d)
  /\ lastResponse' = joinResponse(s, u, prof, g, d)
  /\ UNCHANGED <<botVars, ledgerVars, client, submit, selection, poster, updateResult>>

Update(key, h) ==
  /\ Serve
  /\ sessionsUpdate(key, h)
  /\ lastResponse' = updateResponse(key, h)
  /\ UNCHANGED <<botVars, ledgerVars, client, submit, selection, poster, updateResult>>

Lookup(c, u) ==
  /\ Serve
  /\ lastResponse' = lookupResponse(c, u)
  /\ UNCHANGED <<serverVars, botVars, ledgerVars, client, submit, selection, poster, updateResult>>

Fetch(s) ==
  /\ Serve
  /\ lastResponse' = fetchResponse(s)
  /\ UNCHANGED <<serverVars, botVars, ledgerVars, client, submit, selection, poster, updateResult>>

End(s) ==
  /\ Serve
  /\ sessionsEnd(s)
  /\ lastResponse' = endResponse(s)
  /\ UNCHANGED <<botVars, ledgerVars, client, submit, selection, poster, updateResult>>

NextServer ==
  \/ \E s \in SessionIds, g \in GuildIds, c \in ChannelIds : Start(s, g, c)
  \/ \E s \in SessionIds, u \in UserIds, prof \in Profiles, g \in GuildIds, d \in Dates :
       Join(s, u, prof, g, d)
  \/ \E key \in RequestKeys, h \in Histories : Update(key, h)
  \/ \E c \in ChannelIds, u \in UserIds : Lookup(c, u)
  \/ \E s \in SessionIds : Fetch(s)
  \/ \E s \in SessionIds : End(s)

SpecServer == Init /\ [][NextServer]_vars

\* The session endpoints with ids of any spelling: a guild id and a user id
\* are strings of the request body and may hold the separator of the alias
\* key.
AnyGuildIds == {<<"7">>, <<"a", "_", "b">>}

AnyUserIds == {<<"1">>, <<"b">>}

AnyKeys == {userSessionId(g, u, d) : g \in AnyGuildIds, u \in AnyUserIds, d \in Dates}

NextAlias ==
  \/ \E s \in SessionIds, g \in AnyGuildIds, c \in BotChannels : Start(s, g, c)
  \/ \E s \in SessionIds, u \in AnyUserIds, g \in AnyGuildIds, d \in Dates :
       Join(s, u, ProfileOf(u), g, d)
  \/ \E key \in AnyKeys, h \in {Repeat(FALSE, 1), Solved} : Update(key, h)

SpecAlias == Init /\ [][NextAlias]_vars

\* Request bodies of an update whose guessHistory is not an array of
\* guesses: the field is missing (undefined), or it is a string.  Both are
\* written as one-element sequences so that they can stand where a history
\* stands.
Missing == <<[undefined |-> TRUE]>>

NotAnArray == <<[string |-> "x"]>>

Bodies == {Missing, NotAnArray, Repeat(FALSE, 1), Solved}

\* guessHistory.length in the log line after the assignment (server.js:354)
\* is a TypeError when guessHistory is undefined; guessHistory?.length in
\* the first log line (server.js:328) is not.
updateThrows(key, body) == updateError(key) = "none" /\ body = Missing

\* POST /api/sessions/:userSessionId/update with any body: the handler
\* assigns before it logs, and a handler that throws sends no response
\* (status 0).
UpdateBody(key, body) ==
  /\ Serve
  /\ sessionsUpdate(key, body)
  /\ lastResponse' = IF updateThrows(key, body)
                     THEN Response("update", <<key, body>>, 0, "TypeError")
                     ELSE updateResponse(key, body)
  /\ UNCHANGED <<botVars, ledgerVars, client, submit, selection, poster, updateResult>>

NextBodies ==
  \/ \E s \in SessionIds, g \in GuildIds, c \in ChannelIds : Start(s, g, c)
  \/ \E s \in SessionIds, u \in UserIds, g \in GuildIds, d \in Dates :
       Join(s, u, ProfileOf(u), g, d)
  \/ \E key \in RequestKeys, body \in Bodies : UpdateBody(key, body)

SpecBodies == Init /\ [][NextBodies]_vars

(***************************************************************************)
(* The bot: posting a game, the Play button, the reconciliation loop       *)
(***************************************************************************)

\* What a message shows of a player list: the names of the text and the
\* guess grids of the image (generateGameImage, formatPlayerMessage).
Render(players) ==
  [i \in 1..Len(players) |->
     [username |-> players[i].username, guessHistory |-> players[i].guessHistory]]

\* startGameSession up to activeSessions.set: the reply message is posted, its
\* id becomes the session id and the session is cached with no players. The
\* notification of the server is then awaited.
BotPost(s, g, c) ==
  /\ s \notin DOMAIN messages
  /\ messages' = Put(messages, s, Render(<<>>))
  /\ botSessions' = Put(botSessions, s, [guildId |-> g, channelId |-> c, players |-> <<>>])
  /\ botActive' = Append(botActive, s)
  /\ pendingStart' = pendingStart \cup {s}
  /\ UNCHANGED <<activeSessions, sessionOrder, userToMessageSession, lastResponse,
                 served, click, tick, lastEdit,
                 ledgerVars, client, submit, selection, poster, updateResult>>

\* startGameSession, the start notification: the server answers it, or the
\* request fails and the failure is logged.
BotNotifyStart(s, reached) ==
  /\ s \in pendingStart
  /\ pendingStart' = pendingStart \ {s}
  /\ IF reached
     THEN sessionsStart(s, botSessions[s].guildId, botSessions[s].channelId)
     ELSE UNCHANGED serverVars
  /\ UNCHANGED <<lastResponse, served, botSessions, botActive, click, tick, messages,
                 lastEdit,
                 ledgerVars, client, submit, selection, poster, updateResult>>

\* session.players.find((p) => p.userId === userId) is defined
IsLocalPlayer(players, u) == \E i \in 1..Len(players) : players[i].userId = u

\* The player list a Play click leaves in the cached session.
ClickedPlayers(players, u, prof) ==
  IF IsLocalPlayer(players, u) THEN players
  ELSE Append(players, [userId |-> u, username |-> prof[1], avatarUrl |-> prof[2],
                        guessHistory |-> <<>>, lastGuessCount |-> 0])

\* The Play button of message s clicked by user u, up to the join request:
\* a user the cached session does not hold is pushed to its player list;
\* for a session that is not cached, or a user already in it, the activity
\* is launched and nothing else happens.
ClickPlay(u, s, prof) ==
  /\ s \in DOMAIN messages
  /\ click[u].pc = "idle"
  /\ IF s \in Range(botActive) /\ ~IsLocalPlayer(botSessions[s].players, u)
     THEN /\ botSessions' = [botSessions EXCEPT
                 ![s].players = ClickedPlayers(@, u, prof)]
          /\ click' = [click EXCEPT ![u] = [pc |-> "join", sid |-> s]]
     ELSE UNCHANGED <<botSessions, click>>
  /\ UNCHANGED <<activeSessions, sessionOrder, userToMessageSession, lastResponse,
                 served, botActive, pendingStart, tick, messages, lastEdit,
                 ledgerVars, client, submit, selection, poster, updateResult>>

LocalPlayer(players, u) == players[CHOOSE i \in 1..Len(players) : players[i].userId = u]

\* The join request of the Play-button handler: the server answers it (with
\* ok or with 404), or the request fails; the handler goes on to the edit.
ClickJoin(u, d, reached) ==
  /\ click[u].pc = "join"
  /\ click' = [click EXCEPT ![u].pc = "edit"]
  /\ IF reached
     THEN LET s == click[u].sid
              p == LocalPlayer(botSessions[s].players, u)
          IN sessionsJoin(s, u, <<p.username, p.avatarUrl>>, botSessions[s].guildId, d)
     ELSE UNCHANGED serverVars
  /\ UNCHANGED <<lastResponse, served, botSessions, botActive, pendingStart, tick,
                 messages, lastEdit,
                 ledgerVars, client, submit, selection, poster, updateResult>>

\* The edit of the Play-button handler: the message shows the session's
\* players as they are now, or the edit fails and the failure is logged.
ClickEdit(u, edited) ==
  /\ click[u].pc = "edit"
  /\ click' = [click EXCEPT ![u] = IdleClick]
  /\ messages' = IF edited
                 THEN Put(messages, click[u].sid, Render(botSessions[click[u].sid].players))
                 ELSE messages
  /\ lastEdit' = [by |-> "click", sid |-> click[u].sid, ok |-> edited]
  /\ UNCHANGED <<activeSessions, sessionOrder, userToMessageSession, lastResponse,
                 served, botSessions, botActive, pendingStart, tick,
                 ledgerVars, client, submit, selection, poster, updateResult>>

\* guesses.filter((g) => g.correct).length and its complement
CountGuesses(h, b) == Cardinality({i \in 1..Len(h) : h[i].correct = b})

\* session-poller.js:62-67, for one player
PlayerComplete(player) ==
  \/ CountGuesses(player.guessHistory, TRUE) = NumCategories
  \/ CountGuesses(player.guessHistory, FALSE) >= MaxMistakes

\* session-poller.js:62-69: allComplete && session.players.length > 0
SessionComplete(players) ==
  /\ \A i \in 1..Len(players) : PlayerComplete(players[i])
  /\ Len(players) > 0

\* session-poller.js:33-50, for one cached player: a longer server history
\* replaces the cached one and advances lastGuessCount.
Reconciled(p, serverPlayers) ==
  IF /\ p.userId \in DOMAIN serverPlayers
     /\ Len(serverPlayers[p.userId].guessHistory) > p.lastGuessCount
  THEN [p EXCEPT !.guessHistory = serverPlayers[p.userId].guessHistory,
                 !.lastGuessCount = Len(serverPlayers[p.userId].guessHistory)]
  ELSE p

\* lastGuessCount of each cached player
Cursors(players) == [i \in 1..Len(players) |-> players[i].lastGuessCount]

ReconciledPlayers(players, serverPlayers) ==
  [i \in 1..Len(players) |-> Reconciled(players[i], serverPlayers)]

\* The for-of loop over activeSessions.entries(): the next entry of the Map
\* the run has not visited, or the end of the run.
Advance(t, order, done) ==
  LET rest == SelectSeq(order, LAMBDA s : s \notin done)
  IN IF rest = <<>> THEN IdleTick
     ELSE [pc |-> "fetch", sid |-> Head(rest), done |-> done, before |-> <<>>]

\* The interval timer fires checkSessionUpdates: with no session cached the
\* run returns at once, otherwise it fetches the first session.
TickStart(t) ==
  /\ tick[t].pc = "idle"
  /\ botActive # <<>>
  /\ tick' = [tick EXCEPT ![t] = Advance(t, botActive, {})]
  /\ UNCHANGED <<activeSessions, sessionOrder, userToMessageSession, lastResponse,
                 served, botSessions, botActive, pendingStart, click, messages,
                 lastEdit,
                 ledgerVars, client, submit, selection, poster, updateResult>>

FetchOutcomes == {"answered", "threw", "badStatus", "badBody"}

\* Does the removal of a session by the outer catch apply to this outcome?
FetchRemoves(outcome) == outcome = "threw"

\* One session of a run, from the fetch to the decision to edit: the fetch
\* throws (the outer catch removes the session), the answer is not ok or
\* cannot be parsed (continue), or the server's players are compared with the
\* cached ones, the cursors advanced and, with updates, the edit is issued.
TickFetch(t, outcome) ==
  LET s == tick[t].sid
      done == tick[t].done \cup {s}
  IN /\ tick[t].pc = "fetch"
     /\ IF FetchRemoves(outcome)
        THEN /\ botActive' = Remove(botActive, s)
             /\ tick' = [tick EXCEPT ![t] = Advance(t, botActive', done)]
             /\ UNCHANGED botSessions
        ELSE IF outcome # "answered" \/ s \notin DOMAIN activeSessions
        THEN /\ tick' = [tick EXCEPT ![t] = Advance(t, botActive, done)]
             /\ UNCHANGED <<botSessions, botActive>>
        ELSE LET players == ReconciledPlayers(botSessions[s].players,
                                              activeSessions[s].players)
                 hasUpdates == players # botSessions[s].players
             IN /\ botSessions' = [botSessions EXCEPT ![s].players = players]
                /\ tick' = [tick EXCEPT ![t] =
                     IF hasUpdates
                     THEN [pc |-> "edit", sid |-> s, done |-> done,
                           before |-> Cursors(botSessions[s].players)]
                     ELSE Advance(t, botActive, done)]
                /\ UNCHANGED botActive
     /\ UNCHANGED <<activeSessions, sessionOrder, userToMessageSession, lastResponse,
                    served, pendingStart, click, messages, lastEdit,
                    ledgerVars, client, submit, selection, poster, updateResult>>

\* The player list of the cached session once the edit has failed.
AfterFailedEdit(players) == players

\* An edit whose failure ends the run.
TickEditStops(t, edited) ==
  LET s == tick[t].sid
  IN /\ tick[t].pc = "edit"
     /\ IF edited
        THEN /\ messages' = Put(messages, s, Render(botSessions[s].players))
             /\ botActive' = IF SessionComplete(botSessions[s].players)
                             THEN Remove(botActive, s) ELSE botActive
             /\ UNCHANGED botSessions
        ELSE /\ botSessions' = [botSessions EXCEPT ![s].players = AfterFailedEdit(@)]
             /\ UNCHANGED <<messages, botActive>>
     /\ lastEdit' = [by |-> "tick", sid |-> s, ok |-> edited]
     /\ tick' = [tick EXCEPT ![t] = IF edited THEN Advance(t, botActive', tick[t].done)
                                     ELSE IdleTick]
     /\ UNCHANGED <<activeSessions, sessionOrder, userToMessageSession, lastResponse,
                    served, pendingStart, click,
                    ledgerVars, client, submit, selection, poster, updateResult>>

\* One session of a run, the edit: the message shows the cached players and
\* a complete session leaves the Map, or the edit fails and the inner catch
\* logs it.
TickEdit(t, edited) ==
  LET s == tick[t].sid
  IN /\ tick[t].pc = "edit"
     /\ IF edited
        THEN /\ messages' = Put(messages, s, Render(botSessions[s].players))
             /\ botActive' = IF SessionComplete(botSessions[s].players)
                             THEN Remove(botActive, s) ELSE botActive
             /\ UNCHANGED botSessions
        ELSE /\ botSessions' = [botSessions EXCEPT ![s].players = AfterFailedEdit(@)]
             /\ UNCHANGED <<messages, botActive>>
     /\ lastEdit' = [by |-> "tick", sid |-> s, ok |-> edited]
     /\ tick' = [tick EXCEPT ![t] = Advance(t, botActive', tick[t].done)]
     /\ UNCHANGED <<activeSessions, sessionOrder, userToMessageSession, lastResponse,
                    served, pendingStart, click,
                    ledgerVars, client, submit, selection, poster, updateResult>>

\* updateSession of the client (client/modules/api.js): the player's full
\* history is posted under the player's alias key; the answer is only logged.
ClientUpdate(key, h) ==
  /\ sessionsUpdate(key, h)
  /\ UNCHANGED <<lastResponse, served, botVars, ledgerVars, client, submit, selection, poster, updateResult>>

\* DELETE /api/sessions/:sessionId, sent by an operator.
OperatorEnd(s) ==
  /\ s \in DOMAIN activeSessions
  /\ sessionsEnd(s)
  /\ UNCHANGED <<lastResponse, served, botVars, ledgerVars, client, submit, selection, poster, updateResult>>

Next ==
  \/ \E s \in PostedIds, g \in GuildIds, c \in BotChannels : BotPost(s, g, c)
  \/ \E s \in SessionIds, reached \in BOOLEAN : BotNotifyStart(s, reached)
  \/ \E u \in UserIds, s \in SessionIds : ClickPlay(u, s, ProfileOf(u))
  \/ \E u \in UserIds, d \in Dates, reached \in BOOLEAN : ClickJoin(u, d, reached)
  \/ \E u \in UserIds, edited \in BOOLEAN : ClickEdit(u, edited)
  \/ \E t \in Ticks : TickStart(t)
  \/ \E t \in Ticks, outcome \in FetchOutcomes : TickFetch(t, outcome)
  \/ \E t \in Ticks, edited \in BOOLEAN : TickEdit(t, edited)
  \/ \E key \in AliasKeys, h \in Histories : ClientUpdate(key, h)
  \/ \E s \in SessionIds : OperatorEnd(s)

Spec == Init /\ [][Next]_vars

\* The bot against a server that answers every fetch: a session the
\* registry does not hold (never started there, or ended) is answered with
\* 404, any other with 200.
NextAnswered ==
  \/ \E s \in PostedIds, g \in GuildIds, c \in BotChannels : BotPost(s, g, c)
  \/ \E s \in SessionIds, reached \in BOOLEAN : BotNotifyStart(s, reached)
  \/ \E u \in UserIds, s \in SessionIds : ClickPlay(u, s, ProfileOf(u))
  \/ \E u \in UserIds, d \in Dates, reached \in BOOLEAN : ClickJoin(u, d, reached)
  \/ \E u \in UserIds, edited \in BOOLEAN : ClickEdit(u, edited)
  \/ \E t \in Ticks : TickStart(t)
  \/ \E t \in Ticks : TickFetch(t, "answered")
  \/ \E t \in Ticks, edited \in BOOLEAN : TickEdit(t, edited)
  \/ \E key \in AliasKeys, h \in Histories : ClientUpdate(key, h)
  \/ \E s \in SessionIds : OperatorEnd(s)

SpecAnswered == Init /\ [][NextAnswered]_vars

\* No run is between its fetch of a session and the end of its edit.
Quiet == \A t \in DOMAIN tick : tick[t].pc # "edit"

\* The bot with every request answered, and with clicks and client updates
\* arriving only while no run is between a fetch and its edit: the registry
\* a run edits from is the registry it fetched.
NextFetched ==
  \/ \E s \in PostedIds, g \in GuildIds, c \in BotChannels : Quiet /\ BotPost(s, g, c)
  \/ \E s \in SessionIds : Quiet /\ BotNotifyStart(s, TRUE)
  \/ \E u \in UserIds, s \in SessionIds : Quiet /\ ClickPlay(u, s, ProfileOf(u))
  \/ \E u \in UserIds, d \in Dates : Quiet /\ ClickJoin(u, d, TRUE)
  \/ \E u \in UserIds : Quiet /\ ClickEdit(u, TRUE)
  \/ \E t \in Ticks : TickStart(t)
  \/ \E t \in Ticks : TickFetch(t, "answered")
  \/ \E t \in Ticks, edited \in BOOLEAN : TickEdit(t, edited)
  \/ \E key \in AliasKeys, h \in Histories : Quiet /\ ClientUpdate(key, h)

SpecFetched == Init /\ [][NextFetched]_vars

\* The loop over two sessions posted in the channel, with one player.
NextTwoSessions ==
  \/ \E s \in SessionIds, g \in GuildIds, c \in BotChannels : BotPost(s, g, c)
  \/ \E s \in SessionIds : BotNotifyStart(s, TRUE)
  \/ \E s \in SessionIds : ClickPlay(<<"1">>, s, ProfileOf(<<"1">>))
  \/ \E d \in Dates : ClickJoin(<<"1">>, d, TRUE)
  \/ ClickEdit(<<"1">>, TRUE)
  \/ \E t \in Ticks : TickStart(t)
  \/ \E t \in Ticks, outcome \in FetchOutcomes : TickFetch(t, outcome)
  \/ \E t \in Ticks, edited \in BOOLEAN : TickEdit(t, edited)
  \/ \E g \in GuildIds, d \in Dates, h \in {Repeat(FALSE, 1), Solved} :
       ClientUpdate(userSessionId(g, <<"1">>, d), h)

SpecTwoSessions == Init /\ [][NextTwoSessions]_vars

\* The timer fires every 5 seconds whatever the run it started before is
\* doing: two runs of checkSessionUpdates, over one session and one player.
OverlapRuns == {"t1", "t2"}

InitOverlap == ConstructedWith(OverlapRuns) /\ submit = NoSubmit /\ selection = NoSelection

NextOverlap ==
  \/ \E s \in PostedIds, g \in GuildIds, c \in BotChannels : BotPost(s, g, c)
  \/ \E s \in PostedIds : BotNotifyStart(s, TRUE)
  \/ \E s \in PostedIds : ClickPlay(<<"1">>, s, ProfileOf(<<"1">>))
  \/ \E d \in Dates : ClickJoin(<<"1">>, d, TRUE)
  \/ \E edited \in BOOLEAN : ClickEdit(<<"1">>, edited)
  \/ \E t \in OverlapRuns : TickStart(t)
  \/ \E t \in OverlapRuns, outcome \in FetchOutcomes : TickFetch(t, outcome)
  \/ \E t \in OverlapRuns, edited \in BOOLEAN : TickEdit(t, edited)
  \/ \E g \in GuildIds, d \in Dates, h \in Histories :
       ClientUpdate(userSessionId(g, <<"1">>, d), h)

SpecOverlap == InitOverlap /\ [][NextOverlap]_vars

\* The loop with one player and its timer kept fair: a run that can start
\* does start, and a fetch or an edit that is awaited does settle.
LiveUser == <<"1">>

NextLive ==
  \/ \E s \in PostedIds, g \in GuildIds, c \in BotChannels : BotPost(s, g, c)
  \/ \E s \in PostedIds : BotNotifyStart(s, TRUE)
  \/ \E s \in PostedIds : ClickPlay(LiveUser, s, ProfileOf(LiveUser))
  \/ \E d \in Dates : ClickJoin(LiveUser, d, TRUE)
  \/ \E edited \in BOOLEAN : ClickEdit(LiveUser, edited)
  \/ \E t \in Ticks : TickStart(t)
  \/ \E t \in Ticks, outcome \in FetchOutcomes : TickFetch(t, outcome)
  \/ \E t \in Ticks, edited \in BOOLEAN : TickEdit(t, edited)
  \/ \E g \in GuildIds, d \in Dates, h \in Histories :
       ClientUpdate(userSessionId(g, LiveUser, d), h)

SpecLive ==
  /\ Init
  /\ [][NextLive]_vars
  /\ WF_vars(\E t \in Ticks : TickStart(t))
  /\ WF_vars(\E t \in Ticks, outcome \in FetchOutcomes : TickFetch(t, outcome))
  /\ WF_vars(\E t \in Ticks, edited \in BOOLEAN : TickEdit(t, edited))

(***************************************************************************)
(* The results ledger: table game_results, or gameState without a database *)
(***************************************************************************)

\* The guilds and dates results are stored for.
LedgerGuilds == {<<"7">>, <<"8">>}

LedgerDates == {<<"0", "-", "1">>, <<"0", "-", "2">>}

\* The result a client saves for a finished game: the score is the number of
\* categories solved, with the mistakes and the guesses made.
Result(u, h) ==
  [username |-> ProfileOf(u)[1], avatar |-> ProfileOf(u)[2],
   score |-> CountGuesses(h, TRUE), mistakes |-> CountGuesses(h, FALSE),
   guessHistory |-> h]

Results(u) == {Result(u, Solved), Result(u, Lost)}

\* initializeDatabase: without a connection string pool stays undefined;
\* with one the pool is created at once and the connection is tested.
InitializeDatabase(configured) ==
  /\ pool = "unset"
  /\ pool' = IF configured THEN "connecting" ELSE "undefined"
  /\ UNCHANGED <<serverVars, lastResponse, served, botVars, game_results, gameState,
                 twinResponse, client, submit, selection, poster, updateResult>>

\* initializeDatabase, after the awaits: the tables are there, or the catch
\* sets pool = null.
DatabaseConnected(ok) ==
  /\ pool = "connecting"
  /\ pool' = IF ok THEN "pool" ELSE "null"
  /\ UNCHANGED <<serverVars, lastResponse, served, botVars, game_results, gameState,
                 twinResponse, client, submit, selection, poster, updateResult>>

\* if (pool)
PoolTruthy == pool \in {"connecting", "pool"}

\* JSON.stringify(guessHistory) into the JSON column, and the column as the
\* driver hands it back.
ToJson(h) == [json |-> h]

FromJson(j) == j.json

\* INSERT ... VALUES (guild_id, user_id, username, avatar, game_date, score,
\* mistakes, guess_history); the id is given by the table.
Row(g, u, d, result) ==
  [id |-> 0, guild_id |-> g, user_id |-> u, game_date |-> d, username |-> result.username,
   avatar |-> result.avatar, score |-> result.score, mistakes |-> result.mistakes,
   guess_history |-> ToJson(result.guessHistory)]

\* UNIQUE KEY unique_player_game (guild_id, user_id, game_date)
SameKey(r, q) ==
  r.guild_id = q.guild_id /\ r.user_id = q.user_id /\ r.game_date = q.game_date

\* id INT AUTO_INCREMENT PRIMARY KEY
NextId(rows) ==
  IF rows = {} THEN 1
  ELSE 1 + (CHOOSE n \in {r.id : r \in rows} : \A r \in rows : r.id <= n)

\* A plain INSERT into a table without the unique key.
Insert(rows, row) == rows \cup {[row EXCEPT !.id = NextId(rows)]}

\* INSERT ... ON DUPLICATE KEY UPDATE ...: the row of the key takes the new
\* values and keeps its id, or the row is inserted.
Upsert(rows, row) ==
  IF \E r \in rows : SameKey(r, row)
  THEN {IF SameKey(r, row) THEN [row EXCEPT !.id = r.id] ELSE r : r \in rows}
  ELSE rows \cup {[row EXCEPT !.id = NextId(rows)]}

\* DELETE FROM game_results WHERE guild_id = ? AND game_date = ? AND user_id = ?
DeleteRows(rows, g, d, u) ==
  {r \in rows : ~(r.guild_id = g /\ r.game_date = d /\ r.user_id = u)}

\* SELECT ... WHERE guild_id = ? AND game_date = ?, and rows.forEach into
\* players[row.user_id]
SelectPlayers(rows, g, d) ==
  LET found == {r \in rows : r.guild_id = g /\ r.game_date = d}
  IN [u \in {r.user_id : r \in found} |->
        LET row == CHOOSE r \in found : r.user_id = u
        IN [username |-> row.username, avatar |-> row.avatar, score |-> row.score,
            mistakes |-> row.mistakes, guessHistory |-> FromJson(row.guess_history)]]

\* The outcomes of the queries of one request: all succeed, the first one
\* throws, or the second one does.
DbOutcomes == {"ok", "first", "second"}

\* What a request leaves and answers.
Served(rows, mem, status, body) ==
  [rows |-> rows, mem |-> mem, status |-> status, body |-> body]

\* if (!gameState[guildId] || gameState[guildId].date !== date)
\*   gameState[guildId] = { date, players: {} }
MemReset(mem, g, d) ==
  IF g \notin DOMAIN mem \/ mem[g].date # d
  THEN Put(mem, g, [date |-> d, players |-> Empty])
  ELSE mem

\* GET /api/gamestate/:guildId/:date, the branches
dbQuery(rows, mem, g, d) ==
  Served(rows, mem, 200, [date |-> d, players |-> SelectPlayers(rows, g, d)])

memQuery(rows, mem, g, d) ==
  Served(rows, MemReset(mem, g, d), 200, MemReset(mem, g, d)[g])

\* GET /api/gamestate/:guildId/:date
gamestateQuery(g, d, outcome) ==
  IF PoolTruthy /\ outcome = "ok"
  THEN dbQuery(game_results, gameState, g, d)
  ELSE memQuery(game_results, gameState, g, d)

\* POST /api/gamestate/:guildId/:date/complete, the branches
dbComplete(rows, mem, g, d, u, result, outcome) ==
  IF outcome = "first"
  THEN Served(rows, mem, 500, "Failed to save game result")
  ELSE IF outcome = "second"
  THEN Served(Upsert(rows, Row(g, u, d, result)), mem, 500, "Failed to save game result")
  ELSE Served(Upsert(rows, Row(g, u, d, result)), mem, 200,
              [date |-> d,
               players |-> SelectPlayers(Upsert(rows, Row(g, u, d, result)), g, d)])

memComplete(rows, mem, g, d, u, result) ==
  LET stored == [MemReset(mem, g, d) EXCEPT ![g].players = Put(@, u, result)]
  IN Served(rows, stored, 200, stored[g])

\* POST /api/gamestate/:guildId/:date/complete
gamestateComplete(g, d, u, result, outcome) ==
  IF PoolTruthy
  THEN dbComplete(game_results, gameState, g, d, u, result, outcome)
  ELSE memComplete(game_results, gameState, g, d, u, result)

\* DELETE /api/gamestate/:guildId/:date/:userId, the branches
dbDelete(rows, mem, g, d, u, outcome) ==
  IF outcome = "first"
  THEN Served(rows, mem, 500, "Failed to delete game result")
  ELSE IF outcome = "second"
  THEN Served(DeleteRows(rows, g, d, u), mem, 500, "Failed to delete game result")
  ELSE Served(DeleteRows(rows, g, d, u), mem, 200,
              [date |-> d, players |-> SelectPlayers(DeleteRows(rows, g, d, u), g, d)])

memDelete(rows, mem, g, d, u) ==
  IF g \in DOMAIN mem
  THEN LET stored == [mem EXCEPT ![g].players = Delete(@, u)]
       IN Served(rows, stored, 200, stored[g])
  ELSE Served(rows, mem, 200, [date |-> d, players |-> Empty])

\* DELETE /api/gamestate/:guildId/:date/:userId
gamestateDelete(g, d, u, outcome) ==
  IF PoolTruthy
  THEN dbDelete(game_results, gameState, g, d, u, outcome)
  ELSE memDelete(game_results, gameState, g, d, u)

\* The number of ledger requests the server answers in a run.
MaxLedgerRequests == 3

\* A ledger request served: what it leaves and the response recorded.
Answer(op, req, result) ==
  /\ pool # "unset"
  /\ served < MaxLedgerRequests
  /\ served' = served + 1
  /\ game_results' = result.rows
  /\ gameState' = result.mem
  /\ lastResponse' = Response(op, req, result.status, result.body)

Query(g, d, outcome) ==
  /\ Answer("gamestate", <<g, d>>, gamestateQuery(g, d, outcome))
  /\ UNCHANGED <<serverVars, botVars, pool, twinResponse, client, submit, selection, poster, updateResult>>

Complete(g, d, u, result, outcome) ==
  /\ Answer("complete", <<g, d, u, result>>,
            gamestateComplete(g, d, u, result, outcome))
  /\ UNCHANGED <<serverVars, botVars, pool, twinResponse, client, submit, selection, poster, updateResult>>

DeleteResult(g, d, u, outcome) ==
  /\ Answer("delete", <<g, d, u>>, gamestateDelete(g, d, u, outcome))
  /\ UNCHANGED <<serverVars, botVars, pool, twinResponse, client, submit, selection, poster, updateResult>>

NextLedger ==
  \/ \E configured \in BOOLEAN : InitializeDatabase(configured)
  \/ \E ok \in BOOLEAN : DatabaseConnected(ok)
  \/ \E g \in LedgerGuilds, d \in LedgerDates, outcome \in {"ok", "first"} :
       Query(g, d, outcome)
  \/ \E g \in LedgerGuilds, d \in LedgerDates, u \in UserIds, outcome \in DbOutcomes :
       \E result \in Results(u) : Complete(g, d, u, result, outcome)
  \/ \E g \in LedgerGuilds, d \in LedgerDates, u \in UserIds, outcome \in DbOutcomes :
       DeleteResult(g, d, u, outcome)

SpecLedger == Init /\ [][NextLedger]_vars

(***************************************************************************)
(* Two servers given the same ledger requests: one with a working          *)
(* database, one without a database                                        *)
(***************************************************************************)

\* The same request answered by both: the database branch works on the
\* table, the in-memory branch on gameState, and both answers are kept.
Both(op, req, withDb, withoutDb) ==
  /\ served < MaxLedgerRequests
  /\ served' = served + 1
  /\ game_results' = withDb.rows
  /\ gameState' = withoutDb.mem
  /\ lastResponse' = Response(op, req, withDb.status, withDb.body)
  /\ twinResponse' = Response(op, req, withoutDb.status, withoutDb.body)

BothQuery(g, d) ==
  /\ Both("gamestate", <<g, d>>,
          dbQuery(game_results, gameState, g, d), memQuery(game_results, gameState, g, d))
  /\ UNCHANGED <<serverVars, botVars, pool, client, submit, selection, poster, updateResult>>

BothComplete(g, d, u, result) ==
  /\ Both("complete", <<g, d, u, result>>,
          dbComplete(game_results, gameState, g, d, u, result, "ok"),
          memComplete(game_results, gameState, g, d, u, result))
  /\ UNCHANGED <<serverVars, botVars, pool, client, submit, selection, poster, updateResult>>

BothDelete(g, d, u) ==
  /\ Both("delete", <<g, d, u>>,
          dbDelete(game_results, gameState, g, d, u, "ok"),
          memDelete(game_results, gameState, g, d, u))
  /\ UNCHANGED <<serverVars, botVars, pool, client, submit, selection, poster, updateResult>>

NextLedgerModes ==
  \/ \E g \in LedgerGuilds, d \in LedgerDates : BothQuery(g, d)
  \/ \E g \in LedgerGuilds, d \in LedgerDates, u \in UserIds :
       \E result \in Results(u) : BothComplete(g, d, u, result)
  \/ \E g \in LedgerGuilds, d \in LedgerDates, u \in UserIds : BothDelete(g, d, u)

SpecLedgerModes == Init /\ [][NextLedgerModes]_vars

(***************************************************************************)
(* The client: initializeGame, a guess, saving the result                  *)
(***************************************************************************)

\* The activity is opened in one guild and channel, for one date.
ClientGuild == <<"7">>

ClientChannel == "c1"

ClientDate == <<"0", "-", "1">>

\* The game each user plays: user 1 solves the puzzle without a mistake,
\* user 2 makes four mistakes.
GameOf(u) == IF u = <<"1">> THEN Solved ELSE Lost

\* serverGameState.players && serverGameState.players[userId]
hasUserPlayed(serverGameState, u) == u \in DOMAIN serverGameState.players

\* restoreFromGuessHistory: the guesses are replayed and the game is over
\* with four categories solved or maxMistakes mistakes.
restoreFromGuessHistory(h) ==
  [started |-> TRUE, hasPlayed |-> FALSE, guessHistory |-> h,
   isGameOver |-> (CountGuesses(h, TRUE) = NumCategories
                     \/ CountGuesses(h, FALSE) >= MaxMistakes)]

\* The game state initializeGame arrives at, from the ledger's answer and
\* the lookup's.
InitialGame(serverGameState, sessionLookup, u) ==
  IF sessionLookup.found
  THEN IF Len(sessionLookup.guessHistory) > 0
       THEN restoreFromGuessHistory(sessionLookup.guessHistory)
       ELSE [NewClient EXCEPT !.started = TRUE]
  ELSE IF hasUserPlayed(serverGameState, u)
  THEN [NewClient EXCEPT !.started = TRUE, !.hasPlayed = TRUE, !.isGameOver = TRUE]
  ELSE [NewClient EXCEPT !.started = TRUE]

\* renderGame attaches the listeners of the board only then.
AcceptsGuesses(game) == game.started /\ ~game.isGameOver /\ ~game.hasPlayed

\* initializeGame of user u's client: the game state of the guild is
\* fetched, the user's session is looked up and the game state is set.
ClientInit(u, outcome) ==
  LET query == gamestateQuery(ClientGuild, ClientDate, outcome)
      sessionLookup == lookupScan(sessionOrder, ClientChannel, u)
  IN /\ pool # "unset"
     /\ game_results' = query.rows
     /\ gameState' = query.mem
     /\ client' = [client EXCEPT ![u] = InitialGame(query.body, sessionLookup, u)]
     /\ UNCHANGED <<serverVars, lastResponse, served, botVars, pool, twinResponse, submit, selection, poster, updateResult>>

\* What fetch and the reading of the response make of a request: the
\* request does not reach the server and fetch rejects, the response
\* arrives, or it arrives with a body that is not JSON.
NetOutcomes == {"throws", "ok", "badjson"}

\* The try block of updateSession: fetch, the test of response.ok, and
\* response.json().
updateSessionTry(response, net) ==
  IF net = "throws" THEN [thrown |-> TRUE]
  ELSE IF response.status # 200 THEN [thrown |-> TRUE]
  ELSE IF net = "badjson" THEN [thrown |-> TRUE]
  ELSE [thrown |-> FALSE, result |-> response.body]

\* updateSession without its catch.
updateSessionUncaught(response, net) ==
  LET try == updateSessionTry(response, net)
  IN  IF try.thrown
      THEN [raised |-> TRUE, value |-> [isNull |-> TRUE]]
      ELSE [raised |-> FALSE, value |-> [isNull |-> FALSE, result |-> try.result]]

\* updateSession: what its caller gets.
updateSession(response, net) ==
  LET try == updateSessionTry(response, net)
  IN  IF try.thrown
      THEN [raised |-> FALSE, value |-> [isNull |-> TRUE]]
      ELSE [raised |-> FALSE, value |-> [isNull |-> FALSE, result |-> try.result]]

\* handleSubmit of user u's client, up to the update of the session: the
\* guess is recorded, the game is over with the fourth category or the
\* fourth mistake, and the full history is posted under the alias key with
\* updateSession.
ClientGuess(u, net) ==
  LET h == SubSeq(GameOf(u), 1, Len(client[u].guessHistory) + 1)
      key == userSessionId(ClientGuild, u, ClientDate)
      got == updateSession(updateResponse(key, h), net)
  IN /\ AcceptsGuesses(client[u])
     /\ Len(client[u].guessHistory) < Len(GameOf(u))
     /\ client' = [client EXCEPT ![u] = restoreFromGuessHistory(h)]
     /\ IF net = "throws" THEN UNCHANGED serverVars ELSE sessionsUpdate(key, h)
     /\ updateResult' = [user |-> u, sent |-> h, net |-> net,
                         status |-> IF net = "throws" THEN 0
                                    ELSE updateResponse(key, h).status,
                         raised |-> got.raised, value |-> got.value]
     /\ UNCHANGED <<lastResponse, served, botVars, ledgerVars, submit, selection, poster>>

\* handleSubmit, the end of the game: the result is saved and, once the
\* server has answered, the client has played.
ClientSave(u, outcome) ==
  LET h == client[u].guessHistory
      saved == gamestateComplete(ClientGuild, ClientDate, u, Result(u, h), outcome)
  IN /\ pool # "unset"
     /\ client[u].started /\ client[u].isGameOver /\ ~client[u].hasPlayed
     /\ game_results' = saved.rows
     /\ gameState' = saved.mem
     /\ client' = [client EXCEPT ![u].hasPlayed = (saved.status = 200)]
     /\ UNCHANGED <<serverVars, lastResponse, served, botVars, pool, twinResponse, submit, selection, poster, updateResult>>

NextGame ==
  \/ \E configured \in BOOLEAN : InitializeDatabase(configured)
  \/ \E ok \in BOOLEAN : DatabaseConnected(ok)
  \/ \E s \in PostedIds, g \in GuildIds, c \in BotChannels : BotPost(s, g, c)
  \/ \E s \in SessionIds, reached \in BOOLEAN : BotNotifyStart(s, reached)
  \/ \E u \in UserIds, s \in SessionIds : ClickPlay(u, s, ProfileOf(u))
  \/ \E u \in UserIds, d \in Dates, reached \in BOOLEAN : ClickJoin(u, d, reached)
  \/ \E u \in UserIds, outcome \in {"ok", "first"} : ClientInit(u, outcome)
  \/ \E u \in UserIds : ClientGuess(u, "ok")
  \/ \E u \in UserIds, outcome \in DbOutcomes : ClientSave(u, outcome)

SpecGame == Init /\ [][NextGame]_vars

\* The client's updates against a server whose sessions are started, joined
\* and ended by other requests, over a network that can fail.
NextUpdate ==
  \/ \E configured \in BOOLEAN : InitializeDatabase(configured)
  \/ \E s \in PostedIds, g \in GuildIds, c \in BotChannels : Start(s, g, c)
  \/ \E s \in PostedIds, u \in UserIds, g \in GuildIds, d \in Dates :
       Join(s, u, ProfileOf(u), g, d)
  \/ \E s \in PostedIds : End(s)
  \/ \E u \in UserIds : ClientInit(u, "ok")
  \/ \E u \in UserIds, net \in NetOutcomes : ClientGuess(u, net)

SpecUpdate == Init /\ [][NextUpdate]_vars

(***************************************************************************)
(* The board: selecting words and handleSubmit                             *)
(***************************************************************************)

Words == 1..16

Category(group, members) == [group |-> group, members |-> members]

\* Two puzzles of 4 categories that partition the 16 words; the members of a
\* category are listed in the order the puzzle gives them.
Blocks ==
  << Category("a", <<1, 2, 3, 4>>), Category("b", <<5, 6, 7, 8>>),
     Category("c", <<9, 10, 11, 12>>), Category("d", <<13, 14, 15, 16>>) >>

Stripes ==
  << Category("a", <<1, 5, 9, 13>>), Category("b", <<14, 2, 10, 6>>),
     Category("c", <<3, 15, 7, 11>>), Category("d", <<16, 12, 8, 4>>) >>

Puzzles == {Blocks, Stripes}

\* solvedCategories.some(solved => solved.group === category.group)
IsSolved(solvedCategories, category) ==
  \E solved \in solvedCategories : solved.group = category.group

\* getRemainingWords: the words of the puzzle that are in no solved category.
getRemainingWords(gameData, solvedCategories) ==
  LET solvedWords == { solved.members[k] :
                         <<solved, k>> \in solvedCategories \X (1..4) }
  IN  { gameData[i].members[j] : <<i, j>> \in (DOMAIN gameData) \X (1..4) } \ solvedWords

\* category.members.every(member => selected.has(member))
EveryMember(category, selected) ==
  \A j \in DOMAIN category.members : category.members[j] \in selected

\* A count that is one too high.
matchesLoose(category, selected) ==
  Cardinality({ j \in DOMAIN category.members : category.members[j] \in selected }) + 1

\* category.members.filter(member => selected.has(member)).length
matches(category, selected) ==
  Cardinality({ j \in DOMAIN category.members : category.members[j] \in selected })

\* gameData.categories.find(...): the indices of the categories that are not
\* solved and have every member selected; find takes the first one.
Matching(gameData, solvedCategories, selected) ==
  { i \in DOMAIN gameData :
      /\ ~IsSolved(solvedCategories, gameData[i])
      /\ EveryMember(gameData[i], selected) }

First(indices) == CHOOSE i \in indices : \A j \in indices : i <= j

\* The loop that looks for a category one word away from the selection.
isOneAway(gameData, solvedCategories, selected) ==
  \E i \in DOMAIN gameData :
    /\ ~IsSolved(solvedCategories, gameData[i])
    /\ matches(gameData[i], selected) = 3

\* handleSubmit on a board: the board it leaves.  saved is the call of
\* saveGameResult, whose request the ledger's Complete serves.
handleSubmit(board) ==
  LET selected == board.selectedWords
      found == Matching(board.gameData, board.solvedCategories, selected)
      called == [solvedCategories |-> board.solvedCategories,
                 selectedWords |-> board.selectedWords]
  IN  IF Cardinality(board.selectedWords) # 4
      THEN board
      ELSE IF found # {}
      THEN LET solvedNow == board.solvedCategories \cup {board.gameData[First(found)]}
               over == Cardinality(solvedNow) = NumCategories
           IN  [board EXCEPT !.solvedCategories = solvedNow,
                             !.selectedWords = {},
                             !.message = "Correct!",
                             !.isGameOver = over \/ board.isGameOver,
                             !.saved = over,
                             !.called = called]
      ELSE LET over == board.mistakes + 1 >= MaxMistakes
           IN  [board EXCEPT !.mistakes = board.mistakes + 1,
                             !.selectedWords = {},
                             !.message =
                               IF isOneAway(board.gameData, board.solvedCategories, selected)
                               THEN "One away..."
                               ELSE "Not quite. Try again!",
                             !.isGameOver = over \/ board.isGameOver,
                             !.saved = over,
                             !.called = called]

\* The boards a game can show before a guess: a puzzle, some of its
\* categories solved, some mistakes made, nothing selected, and a button
\* with a listener for every remaining word.
Boards ==
  { [NoSubmit EXCEPT !.gameData = gameData,
                     !.solvedCategories = { gameData[i] : i \in solvedIndices },
                     !.mistakes = mistakes,
                     !.buttons = getRemainingWords(gameData,
                                   { gameData[i] : i \in solvedIndices })] :
      <<gameData, solvedIndices, mistakes>> \in
        Puzzles \X (SUBSET (1..NumCategories) \ {1..NumCategories}) \X {0, MaxMistakes - 1} }

InitBoard == Constructed /\ submit \in Boards /\ selection = NoSelection

\* A click on a word button: deselects a selected word, selects another one
\* while fewer than 4 are selected.  A board is followed up to its first
\* guess; Boards holds the positions the later guesses of a game start from.
ToggleWord(word) ==
  /\ ~submit.isGameOver
  /\ submit.message = "none"
  /\ word \in getRemainingWords(submit.gameData, submit.solvedCategories)
  /\ \/ word \in submit.selectedWords
     \/ Cardinality(submit.selectedWords) < 4
  /\ submit' = [submit EXCEPT !.selectedWords =
                  IF word \in submit.selectedWords
                  THEN submit.selectedWords \ {word}
                  ELSE submit.selectedWords \cup {word}]
  /\ UNCHANGED <<serverVars, lastResponse, served, botVars, ledgerVars, client, selection, poster, updateResult>>

\* A click on the submit button.
Submit ==
  /\ ~submit.isGameOver
  /\ submit.message = "none"
  /\ Cardinality(submit.selectedWords) = 4
  /\ submit' = handleSubmit(submit)
  /\ UNCHANGED <<serverVars, lastResponse, served, botVars, ledgerVars, client, selection, poster, updateResult>>

NextBoard ==
  \/ \E word \in Words : ToggleWord(word)
  \/ Submit

SpecBoard == InitBoard /\ [][NextBoard]_vars

(***************************************************************************)
(* The board over a whole game: the listeners stay on the buttons of the   *)
(* last renderGame until the next one                                      *)
(***************************************************************************)
\* The boards late in a game: at least two categories solved and one
\* mistake left.
LateBoards ==
  { b \in Boards : /\ Cardinality(b.solvedCategories) >= 2
                   /\ b.mistakes = MaxMistakes - 1 }

\* The mistakes a board is followed to.
MaxCounted == 5

InitPlay == Constructed /\ submit \in LateBoards /\ selection = NoSelection

\* renderGame: the board is drawn again and attachEventListeners is called
\* only if the game is not over.
renderGame(board) ==
  [board EXCEPT !.buttons = IF board.isGameOver THEN {}
                            ELSE getRemainingWords(board.gameData, board.solvedCategories)]

\* A click on a word button that has a listener.
ClickWord(word) ==
  /\ word \in submit.buttons
  /\ \/ word \in submit.selectedWords
     \/ Cardinality(submit.selectedWords) < 4
  /\ submit' = [submit EXCEPT !.selectedWords =
                  IF word \in submit.selectedWords
                  THEN submit.selectedWords \ {word}
                  ELSE submit.selectedWords \cup {word}]
  /\ UNCHANGED <<serverVars, lastResponse, served, botVars, ledgerVars, client, selection, poster, updateResult>>

\* A click on the submit button while it has its listener: handleSubmit
\* runs up to its await of saveGameResult, or to its end.  A save is in
\* flight from the first call of saveGameResult to its answer; the
\* arguments of the call are not kept.
ClickSubmit ==
  /\ submit.buttons # {}
  /\ submit.mistakes < MaxCounted
  /\ Cardinality(submit.selectedWords) = 4
  /\ submit' = [handleSubmit(submit) EXCEPT !.saved = @ \/ submit.saved,
                                            !.called = <<>>]
  /\ UNCHANGED <<serverVars, lastResponse, served, botVars, ledgerVars, client, selection, poster, updateResult>>

\* saveGameResult's requests are answered and it calls renderGame, or one
\* of them fails and its catch logs the error.
SaveAnswered(ok) ==
  /\ submit.saved
  /\ submit' = IF ok THEN [renderGame(submit) EXCEPT !.saved = FALSE]
                ELSE [submit EXCEPT !.saved = FALSE]
  /\ UNCHANGED <<serverVars, lastResponse, served, botVars, ledgerVars, client, selection, poster, updateResult>>

\* The timer handleSubmit sets after a guess: the game state is fetched and
\* renderGame is called.
Refresh ==
  /\ submit.message # "none"
  /\ ~submit.saved
  /\ submit' = renderGame(submit)
  /\ UNCHANGED <<serverVars, lastResponse, served, botVars, ledgerVars, client, selection, poster, updateResult>>

NextPlay ==
  \/ \E word \in Words : ClickWord(word)
  \/ ClickSubmit
  \/ \E ok \in BOOLEAN : SaveAnswered(ok)
  \/ Refresh

SpecPlay == InitPlay /\ [][NextPlay]_vars

(***************************************************************************)
(* The selection of the game-state module: toggleWordSelection and         *)
(* clearSelection                                                          *)
(***************************************************************************)

\* GAME_CONFIG.selectableWords
selectableWords == 4

\* The words of the buttons that are clicked: more than can be selected.
SelectionWords == 1..6

\* selectedWords.includes(word)
includes(selectedWords, word) == \E i \in DOMAIN selectedWords : selectedWords[i] = word

\* toggleWordSelection without the test of the length.
toggleWordSelectionUnbounded(selectedWords, word) ==
  IF includes(selectedWords, word)
  THEN [selectedWords |-> SelectSeq(selectedWords, LAMBDA w : w # word),
        returned |-> <<FALSE>>]
  ELSE [selectedWords |-> Append(selectedWords, word), returned |-> <<TRUE>>]

\* toggleWordSelection: the selection it leaves and the value it returns.
toggleWordSelection(selectedWords, word) ==
  IF includes(selectedWords, word)
  THEN [selectedWords |-> SelectSeq(selectedWords, LAMBDA w : w # word),
        returned |-> <<FALSE>>]
  ELSE IF Len(selectedWords) < selectableWords
  THEN [selectedWords |-> Append(selectedWords, word), returned |-> <<TRUE>>]
  ELSE [selectedWords |-> selectedWords, returned |-> <<FALSE>>]

ToggleWordSelection(word) ==
  /\ LET result == toggleWordSelection(selection.selectedWords, word)
     IN  selection' = [selectedWords |-> result.selectedWords,
                       call |-> <<"toggleWordSelection", word>>,
                       returned |-> result.returned]
  /\ UNCHANGED <<serverVars, lastResponse, served, botVars, ledgerVars, client, submit,
                 poster, updateResult>>

\* clearSelection returns nothing.
ClearSelection ==
  /\ selection' = [selectedWords |-> <<>>, call |-> <<"clearSelection">>,
                   returned |-> <<>>]
  /\ UNCHANGED <<serverVars, lastResponse, served, botVars, ledgerVars, client, submit,
                 poster, updateResult>>

NextSelection ==
  \/ \E word \in SelectionWords : ToggleWordSelection(word)
  \/ ClearSelection

SpecSelection == Init /\ [][NextSelection]_vars

(***************************************************************************)
(* The game-state module: restoreFromGuessHistory on any game state        *)
(***************************************************************************)
\* A guess of a history: its words and whether it was a category.
WordGuess(words, correct) == [words |-> words, correct |-> correct]

\* The puzzle the histories are replayed on.
RestoreData == Blocks

\* The guesses of the histories: each category of the puzzle guessed, a
\* wrong guess, and a guess marked correct whose words are no category.
RestoreGuesses ==
  { WordGuess({RestoreData[i].members[j] : j \in 1..4}, TRUE) : i \in DOMAIN RestoreData }
    \cup { WordGuess({1, 2, 3, 5}, FALSE), WordGuess({1, 2, 3, 5}, TRUE) }

\* The longest history restored.
MaxRestore == 4

RestoreHistories == UNION { [1..n -> RestoreGuesses] : n \in 0..MaxRestore }

\* gameState of the module before any call (game-state.js:8-18).
FreshState ==
  [selectedWords |-> <<>>, solvedCategories |-> <<>>, guessHistory |-> <<>>,
   mistakes |-> 0, isGameOver |-> FALSE, call |-> <<>>, calls |-> 0]

\* The game states a call finds: the fresh one, one in the middle of a game
\* with two words selected, and a lost game.
PriorStates ==
  { FreshState,
    [FreshState EXCEPT !.selectedWords = <<1, 5>>,
                       !.solvedCategories = <<RestoreData[2]>>,
                       !.guessHistory = <<WordGuess({1, 2, 3, 5}, FALSE),
                                          WordGuess({5, 6, 7, 8}, TRUE)>>,
                       !.mistakes = 1],
    [FreshState EXCEPT !.guessHistory = [i \in 1..MaxMistakes |-> WordGuess({1, 2, 3, 5}, FALSE)],
                       !.mistakes = MaxMistakes,
                       !.isGameOver = TRUE] }

InitRestore == Constructed /\ submit = NoSubmit /\ selection \in PriorStates

\* guessHistory.forEach(...): a correct guess adds the first category whose
\* members are all among its words, if there is one; an incorrect guess
\* adds a mistake; every guess is pushed to the history.
RECURSIVE replay(_, _, _)
replay(state, gameData, guesses) ==
  IF guesses = <<>> THEN state
  ELSE LET guess == Head(guesses)
           found == { i \in DOMAIN gameData : EveryMember(gameData[i], guess.words) }
           counted ==
             IF guess.correct
             THEN IF found # {}
                  THEN [state EXCEPT !.solvedCategories = Append(@, gameData[First(found)])]
                  ELSE state
             ELSE [state EXCEPT !.mistakes = @ + 1]
       IN replay([counted EXCEPT !.guessHistory = Append(@, guess)], gameData, Tail(guesses))

\* A restore that replays on top of the history and the counts it finds.
restoreStateNoReset(state, gameData, guessHistory) ==
  LET reset == [state EXCEPT !.selectedWords = <<>>]
      replayed == replay(reset, gameData, guessHistory)
  IN IF Len(replayed.solvedCategories) = NumCategories \/ replayed.mistakes >= MaxMistakes
     THEN [replayed EXCEPT !.isGameOver = TRUE]
     ELSE replayed

\* restoreFromGuessHistory on the game state it finds: four fields are
\* reset, the guesses are replayed, and isGameOver is set when the game is
\* over; it is never cleared.
restoreState(state, gameData, guessHistory) ==
  LET reset == [state EXCEPT !.solvedCategories = <<>>, !.mistakes = 0,
                                 !.guessHistory = <<>>, !.selectedWords = <<>>]
      replayed == replay(reset, gameData, guessHistory)
  IN IF Len(replayed.solvedCategories) = NumCategories \/ replayed.mistakes >= MaxMistakes
     THEN [replayed EXCEPT !.isGameOver = TRUE]
     ELSE replayed

\* A call of restoreFromGuessHistory(h); a second call is made with the
\* history of the first.
RestoreFromGuessHistory(h) ==
  /\ selection.calls < 2
  /\ selection.call \in {<<>>, <<h>>}
  /\ selection' = [restoreState(selection, RestoreData, h) EXCEPT
                     !.call = <<h>>, !.calls = @ + 1]
  /\ UNCHANGED <<serverVars, lastResponse, served, botVars, ledgerVars, client, submit,
                 poster, updateResult>>

NextRestore == \E h \in RestoreHistories : RestoreFromGuessHistory(h)

SpecRestore == InitRestore /\ [][NextRestore]_vars

(***************************************************************************)
(* The bot's posting of completed games: checkForCompletedGames            *)
(***************************************************************************)

\* getTodayDate(), the same day throughout.
Today == <<"0", "-", "1">>

\* client.guilds.cache: the guilds the bot is in, each with a text channel.
CachedGuilds == {<<"7">>}

\* `${row.guild_id}:${row.user_id}:${today}`
gameKey(g, u, d) == g \o <<":">> \o u \o <<":">> \o d

\* SELECT ... FROM game_results WHERE game_date = ?
SelectCompleted(rows, today) == {r \in rows : r.game_date = today}

\* The rows of a run the loop would still send for: not posted yet, in a guild
\* of the cache.
Sendable(rows, postedGames) ==
  {r \in rows : /\ gameKey(r.guild_id, r.user_id, Today) \notin postedGames
                /\ r.guild_id \in CachedGuilds}

\* The number of posts made for a key.
Sent(sent, key) == IF key \in DOMAIN sent THEN sent[key] ELSE 0

\* The ready handler's initializeDatabase: the pool is created when there is
\* a connection string and stays assigned whatever getConnection does.
BotReady(configured) ==
  /\ poster.pool = "unset"
  /\ poster' = [poster EXCEPT !.pool = IF configured THEN "pool" ELSE "undefined"]
  /\ UNCHANGED <<serverVars, lastResponse, served, botVars, ledgerVars, client, submit,
                 selection, updateResult>>

\* The loop from where it stands to its next await: it skips the rows that
\* are posted or have no guild, and stops at channel.send for a row or at the
\* end of the rows.  completed_at is not modelled, so the rows come in any
\* order.
Continue(r, rows, postedGames, sent) ==
  \/ /\ Sendable(rows, postedGames) = {}
     /\ poster' = [poster EXCEPT !.run[r] = IdleRun,
                                 !.postedGames = postedGames, !.sent = sent]
  \/ \E row \in Sendable(rows, postedGames) :
       poster' = [poster EXCEPT !.run[r] = [pc |-> "send", rows |-> rows \ {row},
                                            row |-> row],
                                !.postedGames = postedGames, !.sent = sent]

\* The timer fires: without a pool the run returns, otherwise it queries.
RunStart(r) ==
  /\ poster.pool # "unset"
  /\ poster.run[r].pc = "idle"
  /\ poster' = IF poster.pool = "pool"
               THEN [poster EXCEPT !.run[r].pc = "query"]
               ELSE poster
  /\ UNCHANGED <<serverVars, lastResponse, served, botVars, ledgerVars, client, submit,
                 selection, updateResult>>

\* await pool.query returns the rows of today, or throws into the catch.
RunQuery(r, ok) ==
  /\ poster.run[r].pc = "query"
  /\ IF ok
     THEN Continue(r, SelectCompleted(game_results, Today), poster.postedGames, poster.sent)
     ELSE poster' = [poster EXCEPT !.run[r] = IdleRun]
  /\ UNCHANGED <<serverVars, lastResponse, served, botVars, ledgerVars, client, submit,
                 selection, updateResult>>

\* await channel.send returns: the game is posted and marked, and the loop
\* goes on; or it throws into the catch and the run ends.
RunSend(r, ok) ==
  /\ poster.run[r].pc = "send"
  /\ LET row == poster.run[r].row
         key == gameKey(row.guild_id, row.user_id, Today)
     IN  IF ok
         THEN Continue(r, poster.run[r].rows, poster.postedGames \cup {key},
                       Put(poster.sent, key, Sent(poster.sent, key) + 1))
         ELSE poster' = [poster EXCEPT !.run[r] = IdleRun]
  /\ UNCHANGED <<serverVars, lastResponse, served, botVars, ledgerVars, client, submit,
                 selection, updateResult>>

NextCompleted ==
  \/ \E configured \in BOOLEAN : InitializeDatabase(configured)
  \/ \E ok \in BOOLEAN : DatabaseConnected(ok)
  \/ \E g \in LedgerGuilds, d \in LedgerDates, u \in UserIds :
       Complete(g, d, u, Result(u, Solved), "ok")
  \/ \E configured \in BOOLEAN : BotReady(configured)
  \/ \E r \in CompletedRuns : RunStart(r)
  \/ \E r \in CompletedRuns, ok \in BOOLEAN : RunQuery(r, ok)
  \/ \E r \in CompletedRuns, ok \in BOOLEAN : RunSend(r, ok)

SpecCompleted == Init /\ [][NextCompleted]_vars

(***************************************************************************)
(* Claims about the session endpoints                                      *)
(***************************************************************************)

\* The step serves a request of kind op.
Serves(op) == served' = served + 1 /\ lastResponse'.op = op

\* The step serves a request of kind op and answers it with ok.
ServesOk(op) == Serves(op) /\ lastResponse'.status = 200

\* The alias key of a join request <<s, u, prof, g, d>>.
JoinKey(req) == userSessionId(req[4], req[2], req[5])

Key1 == userSessionId(<<"7">>, <<"1">>, <<"0", "-", "1">>)

Key2 == userSessionId(<<"7">>, <<"2">>, <<"0", "-", "1">>)

\* C3, as claimed: an alias that resolves to S keeps resolving to S in every
\* later state in which S is in the registry, whatever is served in between.
C3_AliasStableWhilePresent ==
  [][\A k \in AliasKeys, s \in SessionIds :
       (/\ k \in DOMAIN userToMessageSession
        /\ userToMessageSession[k] = s
        /\ s \in DOMAIN activeSessions')
       => (k \in DOMAIN userToMessageSession' /\ userToMessageSession'[k] = s)]_vars

\* C3, amended: a successful join makes the alias resolve to the joined
\* session, and an alias keeps resolving to the same session (present or
\* not) until a successful join made with the same key re-points it;
\* start, updateProgress, end and joins made with other keys leave it alone.
C3_AliasStableUntilRejoin ==
  [][/\ ServesOk("join") =>
          /\ JoinKey(lastResponse'.req) \in DOMAIN userToMessageSession'
          /\ userToMessageSession'[JoinKey(lastResponse'.req)] = lastResponse'.req[1]
     /\ \A k \in DOMAIN userToMessageSession :
          /\ k \in DOMAIN userToMessageSession'
          /\ \/ userToMessageSession'[k] = userToMessageSession[k]
             \/ ServesOk("join") /\ JoinKey(lastResponse'.req) = k]_vars

\* user 1 has joined m1 and user 2 has joined m2, m2 has just been ended and
\* the alias of user 1 resolves to m1, which is present.
C3_Witness ==
  /\ lastResponse.op = "end"
  /\ lastResponse.req = <<"m2">>
  /\ Key1 \in DOMAIN userToMessageSession
  /\ userToMessageSession[Key1] = "m1"
  /\ "m1" \in DOMAIN activeSessions
  /\ Key2 \in DOMAIN userToMessageSession
  /\ userToMessageSession[Key2] = "m2"

\* C4: a start request for a sessionId that is in the registry is rejected
\* and leaves the session as it is.
C4_StartExistingRejected ==
  [][\A s \in SessionIds :
       (Serves("start") /\ lastResponse'.req[1] = s /\ s \in DOMAIN activeSessions)
       => (lastResponse'.status # 200 /\ activeSessions'[s] = activeSessions[s])]_vars

\* C5: after a successful updateProgress the history stored for the player
\* of the alias key, in the session the alias resolves to, is the payload of
\* that request.
C5_LastWriteWins ==
  (lastResponse.op = "update" /\ lastResponse.status = 200) =>
    \A g \in GuildIds, u \in UserIds, d \in Dates :
      lastResponse.req[1] = userSessionId(g, u, d) =>
        LET s == userToMessageSession[lastResponse.req[1]]
        IN /\ s \in DOMAIN activeSessions
           /\ u \in DOMAIN activeSessions[s].players
           /\ activeSessions[s].players[u].guessHistory = lastResponse.req[2]

\* the last update wrote a one-guess history for user 1 into a session in
\* which user 2 holds a solved game
C5_Witness ==
  /\ lastResponse.op = "update"
  /\ lastResponse.status = 200
  /\ lastResponse.req = <<Key1, Repeat(FALSE, 1)>>
  /\ \E s \in DOMAIN activeSessions :
       /\ userToMessageSession[Key1] = s
       /\ <<"2">> \in DOMAIN activeSessions[s].players
       /\ activeSessions[s].players[<<"2">>].guessHistory = Solved

\* The three not-found cases of updateProgress, read off the state the
\* request finds.
UnknownAlias(key) == key \notin DOMAIN userToMessageSession

StaleAlias(key) ==
  /\ key \in DOMAIN userToMessageSession
  /\ userToMessageSession[key] \notin DOMAIN activeSessions

PlayerMissing(key) ==
  /\ key \in DOMAIN userToMessageSession
  /\ userToMessageSession[key] \in DOMAIN activeSessions
  /\ \A g \in GuildIds, u \in UserIds, d \in Dates :
       key = userSessionId(g, u, d) =>
         u \notin DOMAIN activeSessions[userToMessageSession[key]].players

\* C6: updateProgress answers not-found when the alias key is unknown, when
\* the alias points to a session that is not in the registry and when the
\* player is not in the aliased session, and then leaves the registry and the
\* alias index unchanged.
C6_UpdateNotFound ==
  [][\A key \in RequestKeys :
       (/\ Serves("update")
        /\ lastResponse'.req[1] = key
        /\ (UnknownAlias(key) \/ StaleAlias(key) \/ PlayerMissing(key)))
       => (lastResponse'.status = 404 /\ UNCHANGED serverVars)]_vars

\* an update has been answered "Player not in session": the alias resolves
\* to a session of the registry that does not hold the player
C6_Witness ==
  /\ lastResponse.op = "update"
  /\ lastResponse.status = 404
  /\ lastResponse.body = "Player not in session"
  /\ lastResponse.req[1] = Key1
  /\ userToMessageSession[Key1] \in DOMAIN activeSessions
  /\ <<"1">> \notin DOMAIN activeSessions[userToMessageSession[Key1]].players

\* C7: a join on a sessionId that is not in the registry answers "Session
\* not found" and leaves the registry and the alias index unchanged.
C7_JoinAbsentSession ==
  [][\A s \in SessionIds :
       (Serves("join") /\ lastResponse'.req[1] = s /\ s \notin DOMAIN activeSessions)
       => (/\ lastResponse'.status = 404
           /\ lastResponse'.body = "Session not found"
           /\ UNCHANGED serverVars)]_vars

\* a join on the absent m2 has been refused while the alias of the same key
\* resolves to m1
C7_Witness ==
  /\ lastResponse.op = "join"
  /\ lastResponse.status = 404
  /\ lastResponse.req[1] = "m2"
  /\ JoinKey(lastResponse.req) \in DOMAIN userToMessageSession
  /\ userToMessageSession[JoinKey(lastResponse.req)] = "m1"
  /\ "m2" \notin DOMAIN activeSessions

\* C8: a successful join of a user who is a player of the session leaves the
\* session's player map as it is; a successful join of a new user adds one
\* entry, with the name and avatar of the request and an empty history.
C8_JoinIdempotent ==
  [][ServesOk("join") =>
       LET s == lastResponse'.req[1]
           u == lastResponse'.req[2]
           prof == lastResponse'.req[3]
           old == activeSessions[s].players
           new == activeSessions'[s].players
       IN IF u \in DOMAIN old
          THEN new = old
          ELSE /\ DOMAIN new = DOMAIN old \cup {u}
               /\ \A v \in DOMAIN old : new[v] = old[v]
               /\ new[u] = [username |-> prof[1], avatarUrl |-> prof[2],
                            guessHistory |-> <<>>]]_vars

\* a join has succeeded for a player who has a history in the session and
\* whose stored name is not the name of the request
C8_Witness ==
  /\ lastResponse.op = "join"
  /\ lastResponse.status = 200
  /\ LET s == lastResponse.req[1]
         u == lastResponse.req[2]
     IN /\ activeSessions[s].players[u].guessHistory # <<>>
        /\ activeSessions[s].players[u].username # lastResponse.req[3][1]

\* C9: a successful join re-points the alias of its key to the joined
\* session, an update made with the key right after it would succeed, and a
\* successful update writes the payload to the player's history in the
\* session the alias resolves to and leaves every other session unchanged.
C9_RejoinRedirectsUpdates ==
  [][/\ ServesOk("join") =>
          LET s == lastResponse'.req[1]
              k == JoinKey(lastResponse'.req)
          IN /\ userToMessageSession'[k] = s
             /\ s \in DOMAIN activeSessions'
             /\ lastResponse'.req[2] \in DOMAIN activeSessions'[s].players
     /\ ServesOk("update") =>
          \A g \in GuildIds, u \in UserIds, d \in Dates :
            lastResponse'.req[1] = userSessionId(g, u, d) =>
              LET s2 == userToMessageSession[userSessionId(g, u, d)]
              IN /\ activeSessions'[s2].players[u].guessHistory = lastResponse'.req[2]
                 /\ \A s1 \in DOMAIN activeSessions \ {s2} :
                      /\ s1 \in DOMAIN activeSessions'
                      /\ activeSessions'[s1] = activeSessions[s1]]_vars

\* user 1 joined m1, sent a history, then joined m2: the update made with
\* the same key has just been written to m2, and m1 holds the older history
C9_Witness ==
  /\ lastResponse.op = "update"
  /\ lastResponse.status = 200
  /\ lastResponse.req[1] = Key1
  /\ userToMessageSession[Key1] = "m2"
  /\ {"m1", "m2"} \subseteq DOMAIN activeSessions
  /\ <<"1">> \in DOMAIN activeSessions["m1"].players
  /\ activeSessions["m1"].players[<<"1">>].guessHistory = Solved
  /\ activeSessions["m2"].players[<<"1">>].guessHistory = Repeat(FALSE, 1)

\* The positions, in the registry's order, of the sessions of channel c that
\* hold user u.
Matches(c, u) ==
  {i \in 1..Len(sessionOrder) :
     /\ activeSessions[sessionOrder[i]].channelId = c
     /\ u \in DOMAIN activeSessions[sessionOrder[i]].players}

C11_EndIdempotent ==
  [][\A s \in SessionIds :
       (Serves("end") /\ lastResponse'.req[1] = s) =>
         /\ lastResponse'.status = 200
         /\ DOMAIN activeSessions' = DOMAIN activeSessions \ {s}
         /\ \A o \in DOMAIN activeSessions' : activeSessions'[o] = activeSessions[o]
         /\ sessionOrder' = SelectSeq(sessionOrder, LAMBDA o : o # s)
         /\ userToMessageSession' = userToMessageSession
         /\ s \notin DOMAIN activeSessions => UNCHANGED serverVars]_vars

\* three requests were served: m1 was started and joined by user 1, then the
\* never-started m2 was ended
C11_Witness ==
  /\ lastResponse.op = "end"
  /\ lastResponse.req = <<"m2">>
  /\ lastResponse.status = 200
  /\ served = 3
  /\ "m1" \in DOMAIN activeSessions
  /\ <<"1">> \in DOMAIN activeSessions["m1"].players
  /\ Key1 \in DOMAIN userToMessageSession

\* The sessions of the registry that hold user u.
SessionsOf(u) == {s \in DOMAIN activeSessions : u \in DOMAIN activeSessions[s].players}

\* C19: in every state of the registry a user is in the player map of at
\* most one session.
C19_UserInOneSession ==
  \A u \in UserIds : Cardinality(SessionsOf(u)) <= 1

\* C30: an update served with ok under the alias key of user u changes only
\* the guess history of u in the session the alias resolves to; the other
\* players of that session, the other sessions and the alias index are as
\* they were.
C30_UpdateFrame ==
  [][ServesOk("update") =>
       \A g \in GuildIds, u \in UserIds, d \in Dates :
         lastResponse'.req[1] = userSessionId(g, u, d) =>
           LET s == userToMessageSession[userSessionId(g, u, d)]
               old == activeSessions[s]
               new == activeSessions'[s]
           IN /\ userToMessageSession' = userToMessageSession
              /\ sessionOrder' = sessionOrder
              /\ DOMAIN activeSessions' = DOMAIN activeSessions
              /\ \A o \in DOMAIN activeSessions \ {s} : activeSessions'[o] = activeSessions[o]
              /\ new.guildId = old.guildId /\ new.channelId = old.channelId
              /\ DOMAIN new.players = DOMAIN old.players
              /\ \A p \in DOMAIN old.players \ {u} : new.players[p] = old.players[p]
              /\ new.players[u] = [old.players[u] EXCEPT !.guessHistory = new.players[u].guessHistory]]_vars

\* An update for user 1 was served in a session that also holds user 2 with
\* a lost game, while a second session is in the registry.
C30_Witness ==
  /\ lastResponse.op = "update"
  /\ lastResponse.status = 200
  /\ lastResponse.req = <<Key1, Solved>>
  /\ DOMAIN activeSessions = SessionIds
  /\ \E s \in DOMAIN activeSessions :
       /\ userToMessageSession[Key1] = s
       /\ <<"2">> \in DOMAIN activeSessions[s].players
       /\ activeSessions[s].players[<<"2">>].guessHistory = Lost

\* C34: in every state, if the lookup of a user in a channel finds session S
\* and an alias of the same user resolves to a session S' of the registry,
\* then S = S': the session the client restores its history from is the
\* session its updates are written to.
C34_LookupAgreesWithAlias ==
  \A c \in ChannelIds, u \in UserIds, g \in GuildIds, d \in Dates :
    LET sessionLookup == lookupScan(sessionOrder, c, u)
        key == userSessionId(g, u, d)
    IN (/\ sessionLookup.found
        /\ key \in DOMAIN userToMessageSession
        /\ userToMessageSession[key] \in DOMAIN activeSessions)
       => sessionLookup.sessionId = userToMessageSession[key]

\* An update served right after a successful join, with the key the join
\* returned.
UpdateAfterJoin ==
  /\ lastResponse.op = "join" /\ lastResponse.status = 200
  /\ Serves("update")
  /\ lastResponse'.req[1] = lastResponse.body[1]

\* The update succeeded and changed the history of the joined player alone.
UpdatedJoinedPlayer ==
  LET s == lastResponse.req[1]
      u == lastResponse.req[2]
  IN /\ lastResponse'.status = 200
     /\ activeSessions' =
          [activeSessions EXCEPT ![s].players[u].guessHistory = lastResponse'.req[2]]

NoSeparator(id) == \A i \in 1..Len(id) : id[i] # "_"

C32_MalformedUpdateIsNoOp ==
  [][(Serves("update") /\ lastResponse'.req[2] \in {Missing, NotAnArray})
       => (activeSessions' = activeSessions /\ lastResponse'.status # 0)]_vars

(***************************************************************************)
(* Claims about the reconciliation loop                                    *)
(***************************************************************************)

\* The step in which run t ends its edit of session s, the edit having failed.
EditFailedStep(t, s) ==
  /\ tick[t].pc = "edit"
  /\ tick[t].sid = s
  /\ tick'[t].pc # "edit"
  /\ lastEdit' = [by |-> "tick", sid |-> s, ok |-> FALSE]

\* C1: when the edit of a session's message fails during a tick, the
\* lastGuessCount of every player of the session is, after the tick, what it
\* was when the tick reached the session.
C1_CursorKeptOnFailedEdit ==
  [][\A t \in Ticks, s \in SessionIds :
       EditFailedStep(t, s) =>
         \A i \in 1..Len(tick[t].before) :
           botSessions'[s].players[i].lastGuessCount = tick[t].before[i]]_vars

\* registry players as the completion test reads them
ServerComplete(session) ==
  /\ DOMAIN session.players # {}
  /\ \A u \in DOMAIN session.players : PlayerComplete(session.players[u])

\* C2: a session leaves the bot's activeSessions map, or the server's
\* registry, only when it has players and all of them are complete, and a
\* session a tick has gone through without a failure does not stay in the
\* bot's map when it has players and all of them are complete.
C2_RemovedIffComplete ==
  [][\A s \in SessionIds :
       /\ (s \in Range(botActive) /\ s \notin Range(botActive'))
            => SessionComplete(botSessions[s].players)
       /\ (s \in DOMAIN activeSessions /\ s \notin DOMAIN activeSessions')
            => ServerComplete(activeSessions[s])
       /\ \A t \in Ticks :
            (/\ tick[t].pc \in {"fetch", "edit"}
             /\ tick[t].sid = s
             /\ tick'[t] # tick[t]
             /\ tick'[t].pc # "edit"
             /\ s \in DOMAIN activeSessions
             /\ ServerComplete(activeSessions[s])
             /\ SessionComplete(botSessions'[s].players)
             /\ lastEdit'.ok)
            => s \notin Range(botActive')]_vars

\* The step in which run t leaves session s after a fetch that failed: the
\* session is dropped by the outer catch, or the run goes on without taking
\* over a longer history the server holds.
FetchFailedStep(t, s) ==
  /\ tick[t].pc = "fetch"
  /\ tick[t].sid = s
  /\ tick'[t] # tick[t]
  /\ \/ s \notin Range(botActive')
     \/ /\ s \in DOMAIN activeSessions
        /\ botSessions' = botSessions
        /\ ReconciledPlayers(botSessions[s].players, activeSessions[s].players)
             # botSessions[s].players

\* A step in which a fetch or an edit of a run fails.
FailedStep ==
  \E t \in Ticks, s \in SessionIds : FetchFailedStep(t, s) \/ EditFailedStep(t, s)

\* The guess count the registry stores for player u of session s.
StoredCount(s, u) ==
  IF s \in DOMAIN activeSessions /\ u \in DOMAIN activeSessions[s].players
  THEN Len(activeSessions[s].players[u].guessHistory)
  ELSE 0

\* The longest history of player u the message of session s shows.
ShownCount(s, u) ==
  IF s \in DOMAIN messages /\ \E i \in DOMAIN messages[s] :
                                 messages[s][i].username = ProfileOf(u)[1]
  THEN Len(messages[s][CHOOSE i \in DOMAIN messages[s] :
                         messages[s][i].username = ProfileOf(u)[1]].guessHistory)
  ELSE 0

\* C24: with fair ticks, and fetches and edits that fail only finitely often,
\* a guess count stored in the registry is eventually shown by the session's
\* message, rendered from a history at least that long.
C24_DeltaEventuallyShown ==
  (<>[][~FailedStep]_vars) =>
    \A s \in PostedIds, n \in 1..(NumCategories + MaxMistakes) :
      (StoredCount(s, LiveUser) = n) ~> (ShownCount(s, LiveUser) >= n)

\* The step in which run t ends its edit of session s, the edit having
\* succeeded.
EditSucceededStep(t, s) ==
  /\ tick[t].pc = "edit"
  /\ tick[t].sid = s
  /\ tick'[t].pc # "edit"
  /\ lastEdit' = [by |-> "tick", sid |-> s, ok |-> TRUE]

\* The cached histories of session s are those the registry holds now: the
\* fetch of the run saw the registry as it is.
FetchedCurrent(s) ==
  \A i \in 1..Len(botSessions[s].players) :
    LET p == botSessions[s].players[i]
    IN  p.userId \in DOMAIN activeSessions[s].players
          => p.guessHistory = activeSessions[s].players[p.userId].guessHistory

\* C25: a tick whose fetch and edit succeed for a session that has players
\* in the registry, all of them terminal, removes the session from the bot's
\* active set.
C25_TerminalSessionRemoved ==
  [][\A t \in Ticks, s \in SessionIds :
       (/\ EditSucceededStep(t, s)
        /\ s \in DOMAIN activeSessions
        /\ ServerComplete(activeSessions[s])
        /\ FetchedCurrent(s))
       => s \notin Range(botActive')]_vars

\* C38: after a tick whose fetch and edit succeed for a session, the history
\* cached for each player present in both stores equals that player's
\* history in the registry as fetched in that tick, however the registry's
\* history changed since the previous tick (longer, same length with other
\* content, or shorter).
C38_CacheEqualsFetched ==
  [][\A t \in Ticks, s \in SessionIds :
       (EditSucceededStep(t, s) /\ s \in DOMAIN activeSessions) =>
         \A i \in 1..Len(botSessions'[s].players) :
           LET p == botSessions'[s].players[i]
           IN  p.userId \in DOMAIN activeSessions[s].players
                 => p.guessHistory = activeSessions[s].players[p.userId].guessHistory]_vars

\* The step in which the Play-button handler of user u's click on session s
\* ends.
ClickHandledStep(u, s) ==
  /\ click[u].pc = "edit"
  /\ click[u].sid = s
  /\ click'[u] = IdleClick

\* User u is in the registry's player map of session s and an alias of u
\* resolves to s.
JoinedAtServer(sessions, alias, u, s) ==
  /\ s \in DOMAIN sessions
  /\ u \in DOMAIN sessions[s].players
  /\ \E g \in GuildIds, d \in Dates :
       /\ userSessionId(g, u, d) \in DOMAIN alias
       /\ alias[userSessionId(g, u, d)] = s

\* C39: when the bot has finished handling a Play click of user U on a
\* cached session S, U is in the cached player list of S if and only if U
\* is in the registry's player map of S with an alias registered, also when
\* the server is unreachable or reports that S is not found.
C39_CachedIffJoined ==
  [][\A u \in UserIds, s \in SessionIds :
       ClickHandledStep(u, s) =>
         (IsLocalPlayer(botSessions'[s].players, u)
            <=> JoinedAtServer(activeSessions', userToMessageSession', u, s))]_vars

\* The runs of checkSessionUpdates that have begun and have not returned.
Running == {t \in DOMAIN tick : tick[t].pc # "idle"}

\* C26: reconciliation ticks never overlap: no run of checkSessionUpdates
\* begins while another run is still awaiting a fetch or an edit.
C26_TicksNeverOverlap == Cardinality(Running) <= 1

\* The step in which run t leaves the fetch of session s.
FetchStep(t, s) ==
  /\ tick[t].pc = "fetch"
  /\ tick[t].sid = s
  /\ tick'[t] # tick[t]

\* C27: a session whose fetch or edit fails in transport during a tick is
\* still in the bot's active set after it.  For a session the registry
\* holds the server answers 200, so a fetch either succeeds, and the session
\* stays at least until the edit, or fails in transport.
C27_TransportErrorKeepsSession ==
  [][\A t \in Ticks, s \in SessionIds :
       /\ (FetchStep(t, s) /\ s \in DOMAIN activeSessions) => s \in Range(botActive')
       /\ EditFailedStep(t, s) => s \in Range(botActive')]_vars

\* C28: when the fetch of a session in the bot's active set is answered with
\* session-not-found (the registry does not hold the session), the bot
\* removes the session from its active set during that tick.
C28_NotFoundRemovesSession ==
  [][\A t \in Ticks, s \in SessionIds :
       (FetchStep(t, s) /\ s \notin DOMAIN activeSessions)
         => s \notin Range(botActive')]_vars

\* The step in which run t leaves session s, whatever became of its fetch
\* and its edit.
LeavesSession(t, s) ==
  /\ tick[t].pc \in {"fetch", "edit"}
  /\ tick[t].sid = s
  /\ tick'[t] # tick[t]
  /\ tick'[t].pc # "edit"

\* C29: a failure while a tick processes one session does not stop the tick:
\* when the run leaves a session, with its fetch or its edit failed or not,
\* it goes on to fetch a session of the active set it has not visited, and
\* it returns only when there is none.
C29_FailureDoesNotStopTick ==
  [][\A t \in Ticks, s \in SessionIds :
       LeavesSession(t, s) =>
         LET left == Range(botActive') \ (tick[t].done \cup {s})
         IN  IF left = {}
             THEN tick'[t].pc = "idle"
             ELSE tick'[t].pc = "fetch" /\ tick'[t].sid \in left]_vars

\* A run fetches m2 after its edit of m1 has failed.
C29_Witness ==
  \E t \in Ticks :
    /\ tick[t].pc = "fetch"
    /\ tick[t].sid = "m2"
    /\ "m1" \in tick[t].done
    /\ lastEdit = [by |-> "tick", sid |-> "m1", ok |-> FALSE]

\* The edits of message s that have been issued and have not settled: those
\* of the runs of checkSessionUpdates and those of the Play-button handlers.
EditsInFlight(s) ==
  {<<"tick", t>> : t \in {x \in Ticks : tick[x].pc = "edit" /\ tick[x].sid = s}}
    \cup {<<"click", u>> : u \in {x \in UserIds : click[x].pc = "edit" /\ click[x].sid = s}}

\* C12: while a reconciliation tick's edit of a message is in flight, no
\* other tick and no Play-button handler has an edit of the same message in
\* flight.
C12_NoOverlappingEdits ==
  \A s \in SessionIds, t \in Ticks :
    <<"tick", t>> \in EditsInFlight(s) => EditsInFlight(s) = {<<"tick", t>>}

\* C13: an updateProgress served for a player whose stored progress is
\* terminal leaves the player's score (correct guesses) and mistakes
\* (incorrect guesses) in that session as they were.
C13_TerminalProgressFrozen ==
  [][\A g \in GuildIds, u \in UserIds, d \in Dates :
       LET key == userSessionId(g, u, d)
       IN (/\ ServesOk("update")
           /\ lastResponse'.req[1] = key
           /\ PlayerComplete(activeSessions[userToMessageSession[key]].players[u]))
          => LET old == activeSessions[userToMessageSession[key]].players[u].guessHistory
                 new == activeSessions'[userToMessageSession[key]].players[u].guessHistory
             IN /\ CountGuesses(new, TRUE) = CountGuesses(old, TRUE)
                /\ CountGuesses(new, FALSE) = CountGuesses(old, FALSE)]_vars

(***************************************************************************)
(* Claims about the results ledger and the client                          *)
(***************************************************************************)

\* The rows of the table for the key (g, u, d).
KeyRows(rows, g, u, d) ==
  {r \in rows : r.guild_id = g /\ r.user_id = u /\ r.game_date = d}

\* The records the table holds for the key (g, u, d), as results.
DbRecords(rows, g, u, d) ==
  {[username |-> r.username, avatar |-> r.avatar, score |-> r.score,
    mistakes |-> r.mistakes, guessHistory |-> FromJson(r.guess_history)] :
     r \in KeyRows(rows, g, u, d)}

\* The records gameState holds for the key (g, u, d).
MemRecords(mem, g, u, d) ==
  IF g \in DOMAIN mem /\ mem[g].date = d /\ u \in DOMAIN mem[g].players
  THEN {mem[g].players[u]}
  ELSE {}

\* The records the two stores hold for the key (g, u, d).
LedgerRecords(rows, mem, g, u, d) == DbRecords(rows, g, u, d) \cup MemRecords(mem, g, u, d)

\* The step makes user u's stored progress in session s terminal.
BecomesTerminal(s, u) ==
  /\ s \in DOMAIN activeSessions'
  /\ u \in DOMAIN activeSessions'[s].players
  /\ PlayerComplete(activeSessions'[s].players[u])
  /\ ~(/\ s \in DOMAIN activeSessions
       /\ u \in DOMAIN activeSessions[s].players
       /\ PlayerComplete(activeSessions[s].players[u]))

\* C14: a step that makes a player's progress in the registry terminal
\* leaves, in the ledger, a record for (guild, user, date) with the player's
\* score.
C14_TerminalProgressRecorded ==
  [][\A s \in SessionIds, u \in UserIds :
       BecomesTerminal(s, u) =>
         \E r \in LedgerRecords(game_results', gameState', activeSessions'[s].guildId,
                                u, ClientDate) :
           r.score = CountGuesses(activeSessions'[s].players[u].guessHistory, TRUE)]_vars

\* C15: the table and gameState each hold at most one record for a key
\* (guild, user, date) at any time, and a completion answered with ok leaves,
\* in the store that served it, exactly one record for its key, with the
\* values of the request.
C15_OneRecordPerKey ==
  [][/\ \A g \in LedgerGuilds, u \in UserIds, d \in LedgerDates :
          /\ Cardinality(KeyRows(game_results', g, u, d)) <= 1
          /\ Cardinality(MemRecords(gameState', g, u, d)) <= 1
     /\ ServesOk("complete") =>
          LET g == lastResponse'.req[1]
              d == lastResponse'.req[2]
              u == lastResponse'.req[3]
              result == lastResponse'.req[4]
          IN /\ PoolTruthy => DbRecords(game_results', g, u, d) = {result}
             /\ ~PoolTruthy => MemRecords(gameState', g, u, d) = {result}
             /\ u \in DOMAIN lastResponse'.body.players
             /\ lastResponse'.body.players[u] = result]_vars

\* three requests were served by the database: the first inserted the row
\* of user 1 (id 1), the second the row of user 2 (id 2), the third, a
\* completion of user 1 with a lost game, replaced the values of row 1
C15_Witness ==
  /\ served = 3
  /\ lastResponse.op = "complete"
  /\ lastResponse.status = 200
  /\ lastResponse.req = <<<<"7">>, <<"0", "-", "1">>, <<"1">>, Result(<<"1">>, Lost)>>
  /\ \E r \in KeyRows(game_results, <<"7">>, <<"1">>, <<"0", "-", "1">>) :
       r.id = 1 /\ r.score = 0 /\ r.mistakes = 4
  /\ \E r \in KeyRows(game_results, <<"7">>, <<"2">>, <<"0", "-", "1">>) : r.id = 2

\* C35: a query of the ledger is read-only: for every guild and date asked
\* for, the records the ledger holds for every guild, user and date are the
\* same after the query as before it.
C35_QueryReadOnly ==
  [][Serves("gamestate") =>
       \A g \in LedgerGuilds, u \in UserIds, d \in LedgerDates :
         /\ DbRecords(game_results', g, u, d) = DbRecords(game_results, g, u, d)
         /\ MemRecords(gameState', g, u, d) = MemRecords(gameState, g, u, d)]_vars

\* C36: the delete of (guild, date, user) removes at most the record of
\* exactly that key: the records of the same user in the same guild for
\* other dates, and those of other users and guilds, are unchanged.
C36_DeleteOnlyItsKey ==
  [][Serves("delete") =>
       \A g \in LedgerGuilds, u \in UserIds, d \in LedgerDates :
         <<g, d, u>> # lastResponse'.req =>
           /\ DbRecords(game_results', g, u, d) = DbRecords(game_results, g, u, d)
           /\ MemRecords(gameState', g, u, d) = MemRecords(gameState, g, u, d)]_vars

\* C16: every ledger request (query, completion, delete) is answered with
\* a normal result, whether or not the database failed while serving it.
C16_LedgerRequestsNeverFail ==
  lastResponse.op \in {"gamestate", "complete", "delete"} => lastResponse.status = 200

\* C17: given the same sequence of completions, queries and deletes, a
\* server with the database and a server without one answer every query
\* with the same player records.
C17_ModesAnswerAlike ==
  lastResponse.op = "gamestate" =>
    lastResponse.body.players = twinResponse.body.players

\* The store the server answers from holds a record for the key.
HasCompleted(g, u, d) ==
  IF PoolTruthy THEN DbRecords(game_results, g, u, d) # {}
  ELSE MemRecords(gameState, g, u, d) # {}

\* C18: while the ledger holds a completion record of a user for the
\* client's guild and date, the user's initialized client is in the
\* game-over state and accepts no guess. (A record is written by the user's
\* own client when its game is over, so a client that accepts guesses while
\* the record exists has been initialized after the record was written.)
C18_CompletedUserCannotPlay ==
  \A u \in UserIds :
    (client[u].started /\ HasCompleted(ClientGuild, u, ClientDate))
    => (client[u].isGameOver /\ ~AcceptsGuesses(client[u]))

(***************************************************************************)
(* Claims about the board                                                  *)
(***************************************************************************)

\* The member set of a category.
Members(category) == { category.members[j] : j \in DOMAIN category.members }

\* The categories of the puzzle that were unsolved when handleSubmit was called.
UnsolvedAtCall ==
  { submit.gameData[i] : i \in DOMAIN submit.gameData } \ submit.called.solvedCategories

\* C20: a guess of 4 distinct unsolved words gets exactly one of the three
\* messages: "Correct!" exactly when the guess is the member set of an
\* unsolved category, "One away..." exactly when it is not and some unsolved
\* category shares exactly 3 members with it, "Not quite" otherwise.
C20_SubmitClassifies ==
  submit.called # <<>> =>
    LET guess == submit.called.selectedWords
        correct == \E category \in UnsolvedAtCall : Members(category) = guess
        oneAway == /\ ~correct
                   /\ \E category \in UnsolvedAtCall :
                        Cardinality(Members(category) \cap guess) = 3
    IN  /\ submit.message \in {"Correct!", "One away...", "Not quite. Try again!"}
        /\ submit.message = "Correct!" <=> correct
        /\ submit.message = "One away..." <=> oneAway
        /\ submit.message = "Not quite. Try again!" <=> (~correct /\ ~oneAway)

\* A one-away guess on the striped puzzle with a category already solved.
C20_Witness ==
  /\ submit.called # <<>>
  /\ submit.gameData = Stripes
  /\ submit.called.solvedCategories # {}
  /\ submit.message = "One away..."
  /\ submit.mistakes = 1

\* The words of a selection.
Selected(sel) == { sel.selectedWords[i] : i \in DOMAIN sel.selectedWords }

\* C21: the selection never holds more than 4 words or a word twice; a toggle
\* of a selected word removes it and returns false, a toggle of an unselected
\* word adds it and returns true when fewer than 4 words are selected, and
\* otherwise changes nothing and returns false.
C21_SelectionBounded ==
  /\ [](/\ Len(selection.selectedWords) <= 4
        /\ Cardinality(Selected(selection)) = Len(selection.selectedWords))
  /\ [][\A word \in SelectionWords :
          selection'.call = <<"toggleWordSelection", word>> =>
            IF word \in Selected(selection)
            THEN /\ Selected(selection') = Selected(selection) \ {word}
                 /\ selection'.returned = <<FALSE>>
            ELSE IF Len(selection.selectedWords) < 4
            THEN /\ Selected(selection') = Selected(selection) \cup {word}
                 /\ selection'.returned = <<TRUE>>
            ELSE /\ selection'.selectedWords = selection.selectedWords
                 /\ selection'.returned = <<FALSE>>]_vars

\* A fifth word was toggled on a full selection and refused.
C21_Witness ==
  /\ Len(selection.selectedWords) = 4
  /\ selection.call = <<"toggleWordSelection", 5>>
  /\ 5 \notin Selected(selection)
  /\ selection.returned = <<FALSE>>

\* C31: in every reachable state the score and the mistakes of a game are
\* between 0 and 4, in the client's game state and in every player's
\* progress held by the registry: nothing is counted after the fourth
\* solved category or the fourth mistake, a submit made while the final
\* result is being saved included.
C31_ScoreAndMistakesBounded ==
  /\ submit.mistakes \in 0..MaxMistakes
  /\ Cardinality(submit.solvedCategories) \in 0..NumCategories
  /\ \A s \in DOMAIN activeSessions : \A u \in DOMAIN activeSessions[s].players :
       /\ CountGuesses(activeSessions[s].players[u].guessHistory, TRUE) <= NumCategories
       /\ CountGuesses(activeSessions[s].players[u].guessHistory, FALSE) <= MaxMistakes

\* The categories matched by the correct entries of h, in order.
HasCategory(guess) ==
  \E i \in DOMAIN RestoreData : Members(RestoreData[i]) \subseteq guess.words

MatchedInOrder(h) ==
  LET hits == SelectSeq(h, LAMBDA guess : guess.correct /\ HasCategory(guess))
  IN [k \in 1..Len(hits) |->
        RestoreData[First({i \in DOMAIN RestoreData :
                             Members(RestoreData[i]) \subseteq hits[k].words})]]

\* The fields of the game state.
GameFields(state) ==
  <<state.selectedWords, state.solvedCategories, state.guessHistory, state.mistakes,
    state.isGameOver>>

\* A step that is a call of restoreFromGuessHistory leaves the history, the
\* mistakes, the solved categories and an empty selection, isGameOver as
\* over(...) says, and, when it is the second call, the state of the first.
RestoredWith(over(_, _)) ==
  selection'.calls = selection.calls + 1 =>
    LET h == selection'.call[1]
    IN /\ selection'.guessHistory = h
       /\ selection'.mistakes = CountGuesses(h, FALSE)
       /\ selection'.solvedCategories = MatchedInOrder(h)
       /\ selection'.selectedWords = <<>>
       /\ selection'.isGameOver = over(selection, selection')
       /\ selection.calls = 1 => GameFields(selection') = GameFields(selection)

GameIsOver(before, after) ==
  Len(after.solvedCategories) = NumCategories \/ after.mistakes >= MaxMistakes

GameIsOverOrWas(before, after) == GameIsOver(before, after) \/ before.isGameOver

C22_PostedAtMostOnce ==
  \A key \in DOMAIN poster.sent : poster.sent[key] <= 1

(***************************************************************************)
(* Claims about the client's updates                                       *)
(***************************************************************************)

\* C23: updateSession never raises to its caller; when the request fails on
\* the network or the response is not OK (not-found included) it returns
\* null and the client's game state is what the guess left.
C23_UpdateSessionNeverRaises ==
  [][updateResult' # updateResult =>
       /\ ~updateResult'.raised
       /\ (updateResult'.net = "throws" \/ updateResult'.status # 200) =>
            /\ updateResult'.value = [isNull |-> TRUE]
            /\ client'[updateResult'.user] = restoreFromGuessHistory(updateResult'.sent)
            /\ \A o \in UserIds \ {updateResult'.user} : client'[o] = client[o]]_vars

\* An update answered with not-found gave null to a client with a guess made.
C23_Witness ==
  /\ updateResult.net = "ok"
  /\ updateResult.status = 404
  /\ updateResult.value = [isNull |-> TRUE]
  /\ ~updateResult.raised
  /\ Len(client[updateResult.user].guessHistory) = 2

====
